---- MODULE Spec2Model ----
(***************************************************************************)
(* A model of the directory widget of public/script.js: the CSV parser,    *)
(* the field resolver and record normalizer, the search / ranking engine,  *)
(* the HTML sanitizer and the application state driven by UI events.       *)
(*                                                                         *)
(* A JavaScript string is a sequence of one-character strings.  A record   *)
(* object is [cols, lc, fuzzy]: cols is the sequence of its own header     *)
(* properties in insertion order, lc the "__lc" property that buildLc adds *)
(* and fuzzy the "__fuzzy" property that applyFilters adds to its copies.  *)
(***************************************************************************)
EXTENDS Integers, Sequences, FiniteSets, TLC

VARIABLES
    \* parseCSV (script.js 105-140): its argument, its locals, its result
    csv, i, inQuotes, field, row, rows, records, pc,
    \* the argument and the returned value of a pure function under check
    arg, ret,
    \* the widget's state (script.js 354-360) and what the page shows
    allRecords, filtered, currentPage, pageSize, currentRole, currentQuery,
    fuzzyEnabled, roleOptions, listEl,
    \* whether the previous and next buttons are disabled (script.js 501-502)
    prevBtn, nextBtn,
    \* the search box and the number of its debounce timers that are set
    \* (script.js 620-621), the loads in
    \* flight, and whether applyFilters raised in the handler that ran last
    inputValue, timer, pending, raised

csvVars == <<csv, i, inQuotes, field, row, rows, records, pc>>
fnVars == <<arg, ret>>
appVars ==
    <<allRecords, filtered, currentPage, pageSize, currentRole, currentQuery,
      fuzzyEnabled, roleOptions, listEl, prevBtn, nextBtn, inputValue, timer, pending,
      raised>>
vars == <<csv, i, inQuotes, field, row, rows, records, pc, arg, ret, appVars>>

DefaultPageSize == 10

\* the widget before its first load (script.js 354-360); the buttons are
\* enabled, as a button is until render disables it
AppIdle ==
    /\ allRecords = <<>> /\ filtered = <<>> /\ currentPage = 1
    /\ pageSize = DefaultPageSize /\ currentRole = <<>> /\ currentQuery = <<>>
    /\ fuzzyEnabled = FALSE /\ roleOptions = <<>>
    /\ listEl = [error |-> FALSE, cards |-> <<>>]
    /\ prevBtn = FALSE /\ nextBtn = FALSE
    /\ inputValue = <<>> /\ timer = 0 /\ pending = 0 /\ raised = "none"

-----------------------------------------------------------------------------
(* Strings *)

QUOTE == "\""
COMMA == ","
CR == "\r"
LF == "\n"
SP == " "

\* csv[k] of JavaScript: 0-based, undefined past the end
At(text, k) == IF k >= 0 /\ k < Len(text) THEN text[k + 1] ELSE "undefined"

WhiteSpace == {SP, LF, CR, "\t"}
IsSpace(c) == c \in WhiteSpace

RECURSIVE trimStart(_)
trimStart(s) == IF s # <<>> /\ IsSpace(Head(s)) THEN trimStart(Tail(s)) ELSE s

RECURSIVE trimEnd(_)
trimEnd(s) ==
    IF s # <<>> /\ IsSpace(s[Len(s)]) THEN trimEnd(SubSeq(s, 1, Len(s) - 1)) ELSE s

\* String.prototype.trim
trim(s) == trimEnd(trimStart(s))

\* F(v), with v evaluated once
Apply(v, F(_)) == CHOOSE r \in {F(x) : x \in {v}} : TRUE

\* All strings over alphabet A of length at most n
StringsUpTo(A, n) == UNION {[1..k -> A] : k \in 0..n}

-----------------------------------------------------------------------------
(* Objects *)

NoLc == [has |-> FALSE, m |-> <<>>]
NoFuzzy == "absent"

\* obj[k] = v on a plain object: overwrite in place, or append a new property
ObjSet(o, k, v) ==
    IF \E n \in 1..Len(o) : o[n].k = k
    THEN [n \in 1..Len(o) |-> IF o[n].k = k THEN [k |-> k, v |-> v] ELSE o[n]]
    ELSE Append(o, [k |-> k, v |-> v])

ObjHas(o, k) == \E n \in 1..Len(o) : o[n].k = k
ObjGet(o, k) == LET n == CHOOSE n \in 1..Len(o) : o[n].k = k IN o[n].v
ObjKeys(o) == [n \in 1..Len(o) |-> o[n].k]

\* the object a data row becomes (script.js 136-138)
RECURSIVE zipRow(_, _, _, _)
zipRow(headers, r, idx, obj) ==
    IF idx > Len(headers) THEN obj
    ELSE zipRow(headers, r, idx + 1,
                ObjSet(obj, headers[idx], IF idx <= Len(r) THEN r[idx] ELSE <<>>))

NewRecord(headers, r) ==
    [cols |-> zipRow(headers, r, 1, <<>>), lc |-> NoLc, fuzzy |-> NoFuzzy]

-----------------------------------------------------------------------------
(* parseCSV, script.js 105-140 *)

ParseStart == [i |-> 0, inQuotes |-> FALSE, field |-> <<>>, row |-> <<>>, rows |-> <<>>]

\* a mutant: the quote flag is not consulted for separators
parseStepIgnoringQuotes(text, s) ==
    LET ch == At(text, s.i) IN
    IF ch = QUOTE THEN [s EXCEPT !.inQuotes = ~@, !.i = @ + 1]
    ELSE IF ch = COMMA
    THEN [s EXCEPT !.row = Append(@, s.field), !.field = <<>>, !.i = @ + 1]
    ELSE IF ch = CR
    THEN [s EXCEPT !.rows = Append(@, Append(s.row, s.field)), !.row = <<>>,
                   !.field = <<>>, !.i = @ + (IF At(text, s.i + 1) = LF THEN 2 ELSE 1)]
    ELSE IF ch = LF
    THEN [s EXCEPT !.rows = Append(@, Append(s.row, s.field)), !.row = <<>>,
                   !.field = <<>>, !.i = @ + 1]
    ELSE [s EXCEPT !.field = Append(@, ch), !.i = @ + 1]

\* a mutant: the closing quote of an unterminated pair is not consumed
parseStepStuck(text, s) ==
    LET ch == At(text, s.i) IN
    IF s.inQuotes /\ ch = QUOTE /\ At(text, s.i + 1) # QUOTE
    THEN [s EXCEPT !.inQuotes = FALSE]
    ELSE parseStepIgnoringQuotes(text, s)

\* one pass of the while loop (script.js 112-129)
parseStep(text, s) ==
    LET ch == At(text, s.i) IN
    IF s.inQuotes
    THEN IF ch = QUOTE
         THEN IF At(text, s.i + 1) = QUOTE
              THEN [s EXCEPT !.field = Append(@, QUOTE), !.i = @ + 2]
              ELSE [s EXCEPT !.inQuotes = FALSE, !.i = @ + 1]
         ELSE [s EXCEPT !.field = Append(@, ch), !.i = @ + 1]
    ELSE IF ch = QUOTE THEN [s EXCEPT !.inQuotes = TRUE, !.i = @ + 1]
    ELSE IF ch = COMMA
    THEN [s EXCEPT !.row = Append(@, s.field), !.field = <<>>, !.i = @ + 1]
    ELSE IF ch = CR
    THEN [s EXCEPT !.rows = Append(@, Append(s.row, s.field)), !.row = <<>>,
                   !.field = <<>>, !.i = @ + (IF At(text, s.i + 1) = LF THEN 2 ELSE 1)]
    ELSE IF ch = LF
    THEN [s EXCEPT !.rows = Append(@, Append(s.row, s.field)), !.row = <<>>,
                   !.field = <<>>, !.i = @ + 1]
    ELSE [s EXCEPT !.field = Append(@, ch), !.i = @ + 1]

\* a mutant: every row left after the loop is pushed, an empty one included
flushRowsKeepingAll(s) == Append(s.rows, Append(s.row, s.field))

\* a mutant: every single-empty-field row is dropped, not only the last
flushRowsDroppingEmpty(s) ==
    SelectSeq(Append(s.rows, Append(s.row, s.field)), LAMBDA r : r # << <<>> >>)

\* after the loop (script.js 130-131): push the last field and, unless it is
\* a single empty field, the last row
flushRows(s) ==
    LET last == Append(s.row, s.field) IN
    IF Len(last) > 1 \/ last[1] # <<>> THEN Append(s.rows, last) ELSE s.rows

\* a mutant: header names are used untrimmed
headersOfUntrimmed(rs) == rs[1]

\* script.js 134
headersOf(rs) == [n \in 1..Len(rs[1]) |-> trim(rs[1][n])]

\* a mutant: a row shorter than the header is rejected
recordsOfRejectingShort(rs) ==
    IF rs = <<>> THEN <<>>
    ELSE LET ok == SelectSeq(Tail(rs), LAMBDA r : Len(r) >= Len(rs[1])) IN
         [n \in 1..Len(ok) |-> NewRecord(headersOf(rs), ok[n])]

\* script.js 133-139
recordsOf(rs) ==
    IF rs = <<>> THEN <<>>
    ELSE [n \in 1..(Len(rs) - 1) |-> NewRecord(headersOf(rs), rs[n + 1])]

RECURSIVE parseFrom(_, _)
parseFrom(text, s) ==
    IF s.i < Len(text) THEN parseFrom(text, parseStep(text, s))
    ELSE recordsOf(flushRows(s))

\* parseCSV as a function of its argument
parseCSV(text) == parseFrom(text, ParseStart)

-----------------------------------------------------------------------------
(* parseCSV as a process: one action per pass of the loop *)

MaxCsvLen == 5
CsvChars == {"a", SP, COMMA, QUOTE, LF, CR}

\* Comp name,Date\n"Spring, Open",2024-01-10\n
ScenarioCsv ==
    <<"C","o","m","p"," ","n","a","m","e",",","D","a","t","e","\n",
      "\"","S","p","r","i","n","g",","," ","O","p","e","n","\"",",",
      "2","0","2","4","-","0","1","-","1","0","\n">>

CsvTexts == StringsUpTo(CsvChars, MaxCsvLen) \cup {ScenarioCsv}

NoRet == [done |-> FALSE, v |-> <<>>]
Returned(v) == [done |-> TRUE, v |-> v]

FnIdle == arg = "none" /\ ret = NoRet

CsvIdle ==
    /\ csv = <<>> /\ i = 0 /\ inQuotes = FALSE /\ field = <<>> /\ row = <<>>
    /\ rows = <<>> /\ records = <<>> /\ pc = "idle"
    /\ AppIdle

InitCSV ==
    /\ csv \in CsvTexts
    /\ i = 0 /\ inQuotes = FALSE /\ field = <<>> /\ row = <<>> /\ rows = <<>>
    /\ records = <<>>
    /\ pc = "loop"
    /\ FnIdle
    /\ AppIdle

ParseLoop ==
    /\ pc = "loop"
    /\ i < Len(csv)
    /\ LET s == parseStep(csv, [i |-> i, inQuotes |-> inQuotes, field |-> field,
                                row |-> row, rows |-> rows])
       IN /\ i' = s.i
          /\ inQuotes' = s.inQuotes
          /\ field' = s.field
          /\ row' = s.row
          /\ rows' = s.rows
    /\ UNCHANGED <<csv, records, pc, arg, ret, appVars>>

ParseReturn ==
    /\ pc = "loop"
    /\ i >= Len(csv)
    /\ rows' = flushRows([i |-> i, inQuotes |-> inQuotes, field |-> field,
                          row |-> row, rows |-> rows])
    /\ records' = recordsOf(rows')
    /\ pc' = "done"
    /\ UNCHANGED <<csv, i, inQuotes, field, row, arg, ret, appVars>>

NextCSV == ParseLoop \/ ParseReturn

\* the loop is a straight-line program: a pass that can run does run
SpecCSV == InitCSV /\ [][NextCSV]_vars /\ WF_vars(NextCSV)

-----------------------------------------------------------------------------
(* What the text of a CSV document denotes, stated over the positions of    *)
(* the text (1-based) and not over a scan: the properties parseCSV is       *)
(* checked against.                                                        *)

QuotesBefore(t, p) == Cardinality({k \in 1..(p - 1) : t[k] = QUOTE})
InsideQuotes(t, p) == QuotesBefore(t, p) % 2 = 1

\* the second quote of a doubled quote inside a quoted section
LiteralQuote(t, p) ==
    t[p] = QUOTE /\ p > 1 /\ t[p - 1] = QUOTE /\ QuotesBefore(t, p) % 2 = 0

OpensQuotes(t, p) ==
    t[p] = QUOTE /\ QuotesBefore(t, p) % 2 = 0 /\ ~LiteralQuote(t, p)

IsContent(t, p) ==
    IF t[p] = QUOTE THEN LiteralQuote(t, p)
    ELSE InsideQuotes(t, p) \/ t[p] \notin {COMMA, CR, LF}

EndsField(t, p) == t[p] = COMMA /\ ~InsideQuotes(t, p)

EndsRow(t, p) ==
    /\ ~InsideQuotes(t, p)
    /\ \/ t[p] = CR
       \/ t[p] = LF /\ ~(p > 1 /\ t[p - 1] = CR)

Kth(S, k) == CHOOSE x \in S : Cardinality({y \in S : y < x}) = k - 1

\* the characters of t at the positions of P, in order
Pick(t, P) == [k \in 1..Cardinality(P) |-> t[Kth(P, k)]]

FieldText(t, a, b) == Pick(t, {p \in a..b : IsContent(t, p)})

\* the pieces of a..b between the positions of E
Pieces(E, a, b, k) ==
    LET n == Cardinality(E)
        lo == IF k = 1 THEN a ELSE Kth(E, k - 1) + 1
        hi == IF k = n + 1 THEN b ELSE Kth(E, k) - 1
    IN <<lo, hi>>

FieldsOf(t, a, b) ==
    LET E == {p \in a..b : EndsField(t, p)} IN
    [k \in 1..(Cardinality(E) + 1) |->
        FieldText(t, Pieces(E, a, b, k)[1], Pieces(E, a, b, k)[2])]

RowEnds(t) == {p \in 1..Len(t) : EndsRow(t, p)}

\* every row of the text, the one after the last line break included
AllRowsOf(t) ==
    LET E == RowEnds(t) IN
    [k \in 1..(Cardinality(E) + 1) |->
        FieldsOf(t, Pieces(E, 1, Len(t), k)[1], Pieces(E, 1, Len(t), k)[2])]

EmptyRow == << <<>> >>

\* the rows of the text: a last row that is a single empty field is no row
RowsOf(t) ==
    LET all == AllRowsOf(t) IN
    IF all[Len(all)] = EmptyRow THEN SubSeq(all, 1, Len(all) - 1) ELSE all

IsSuffix(a, b) == Len(a) <= Len(b) /\ SubSeq(b, Len(b) - Len(a) + 1, Len(b)) = a

Max(a, b) == IF a >= b THEN a ELSE b

ScenarioRecord ==
    [cols |-> << [k |-> <<"C","o","m","p"," ","n","a","m","e">>,
                  v |-> <<"S","p","r","i","n","g",","," ","O","p","e","n">>],
                 [k |-> <<"D","a","t","e">>,
                  v |-> <<"2","0","2","4","-","0","1","-","1","0">>] >>,
     lc |-> NoLc, fuzzy |-> NoFuzzy]

\* C3: quoted commas and line breaks are field content, a doubled quote is
\* one quote, an unquoted comma ends the field and an unquoted \r\n, \r or \n
\* ends the row once: the table parseCSV builds is the one the text denotes,
\* and the scenario text gives the one record Spring, Open / 2024-01-10.
C3_QuotedContent ==
    pc = "done" =>
        /\ rows = RowsOf(csv)
        /\ csv = ScenarioCsv => records = <<ScenarioRecord>>

C3_Witness ==
    /\ pc = "done"
    /\ \E p \in 1..Len(csv) : InsideQuotes(csv, p) /\ csv[p] \in {COMMA, LF, CR}
    /\ \E p \in 1..Len(csv) : LiteralQuote(csv, p)
    /\ rows # <<>>

\* C5 as claimed: no record comes from a row that is a single empty field,
\* and every other data row gives one record.
C5_NoRecordFromEmptyRow ==
    pc = "done" =>
        LET all == AllRowsOf(csv) IN
        Len(records) = Cardinality({k \in 2..Len(all) : all[k] # EmptyRow})

\* C5 as amended: only the row left after the last line break is dropped
\* when it is a single empty field; every other row after the header row,
\* an empty line included, gives exactly one record.
C5_OnlyLastEmptyRowDropped ==
    pc = "done" =>
        LET E == RowEnds(csv)
            from == IF E = {} THEN 1 ELSE Kth(E, Cardinality(E)) + 1
            kept == \E p \in from..Len(csv) : EndsField(csv, p) \/ IsContent(csv, p)
        IN Len(records) = Max(0, Cardinality(E) + (IF kept THEN 1 ELSE 0) - 1)

C5_Witness ==
    /\ pc = "done"
    /\ Len(rows) >= 2 /\ rows[Len(rows)] = EmptyRow
    /\ Len(records) = Len(rows) - 1
    /\ csv[Len(csv)] = LF

\* C6: each record has the trimmed header names as keys; a missing trailing
\* field reads as the empty string, a field beyond the header is discarded,
\* and every data row gives a record whatever its field count.
C6_RecordKeys ==
    pc = "done" /\ RowsOf(csv) # <<>> =>
        LET rs == RowsOf(csv)
            hs == rs[1]
        IN /\ Len(records) = Len(rs) - 1
           /\ \A n \in 1..Len(records) :
                LET r == rs[n + 1]
                    o == records[n].cols
                IN /\ {o[x].k : x \in 1..Len(o)} = {trim(hs[x]) : x \in 1..Len(hs)}
                   /\ Len(o) = Cardinality({trim(hs[x]) : x \in 1..Len(hs)})
                   /\ \A x \in 1..Len(hs) :
                        (\A y \in (x + 1)..Len(hs) : trim(hs[y]) # trim(hs[x]))
                        => ObjGet(o, trim(hs[x])) = IF x <= Len(r) THEN r[x] ELSE <<>>

C6_Witness ==
    /\ pc = "done"
    /\ Len(records) >= 1
    /\ Len(rows[2]) < Len(rows[1])
    /\ \E x \in 1..Len(rows[1]) : trim(rows[1][x]) # rows[1][x]

\* the unescaped characters after the last opening quote
SinceQuote(t) ==
    LET O == {p \in 1..Len(t) : OpensQuotes(t, p)} IN
    IF O = {} THEN <<>> ELSE FieldText(t, Kth(O, Cardinality(O)) + 1, Len(t))

-----------------------------------------------------------------------------
(* Writing a record set as CSV and reading it back *)

MaxRtLen == 1
RtChars == {"a", COMMA, QUOTE, LF, CR}
RtValues == StringsUpTo(RtChars, MaxRtLen)

\* header lists of distinct names; some names carry outer white space
RtHeaderLists ==
    { << <<"a">> >>, << <<>> >>, << <<SP, "a">> >>,
      << <<"a">>, <<"b">> >>, << <<"b">>, <<"a", COMMA>> >>,
      << <<"a", SP>>, <<"a">> >> }

\* one column and up to two records, or two columns and one record
RtRecordCounts(hs) == IF Len(hs) = 1 THEN 0..2 ELSE {1}

RtInputs ==
    UNION { UNION { [headers : {hs}, values : [1..n -> [1..Len(hs) -> RtValues]],
                     eol : {<<LF>>, <<CR, LF>>}, final : BOOLEAN]
                    : n \in RtRecordCounts(hs) }
            : hs \in RtHeaderLists }

RECURSIVE doubleQuotes(_)
doubleQuotes(s) ==
    IF s = <<>> THEN <<>>
    ELSE (IF Head(s) = QUOTE THEN <<QUOTE, QUOTE>> ELSE <<Head(s)>>)
         \o doubleQuotes(Tail(s))

\* RFC 4180: a field with a comma, a quote or a line break is quoted
csvField(s) ==
    IF \E n \in 1..Len(s) : s[n] \in {COMMA, QUOTE, LF, CR}
    THEN <<QUOTE>> \o doubleQuotes(s) \o <<QUOTE>>
    ELSE s

RECURSIVE csvLine(_)
csvLine(fs) ==
    IF Len(fs) = 1 THEN csvField(fs[1])
    ELSE csvField(fs[1]) \o <<COMMA>> \o csvLine(Tail(fs))

RECURSIVE joinLines(_, _, _)
joinLines(ls, eol, final) ==
    IF Len(ls) = 1 THEN ls[1] \o (IF final THEN eol ELSE <<>>)
    ELSE ls[1] \o eol \o joinLines(Tail(ls), eol, final)

\* the header row, then one row per record
toCSV(rs) ==
    joinLines(<<csvLine(rs.headers)>>
              \o [n \in 1..Len(rs.values) |-> csvLine(rs.values[n])],
              rs.eol, rs.final)

\* the record set as parseCSV should give it back
RtExpected(rs) ==
    [n \in 1..Len(rs.values) |->
        [cols |-> [x \in 1..Len(rs.headers) |->
                      [k |-> rs.headers[x], v |-> rs.values[n][x]]],
         lc |-> NoLc, fuzzy |-> NoFuzzy]]

InitRoundTrip == arg \in RtInputs /\ ret = NoRet /\ CsvIdle

RoundTrip ==
    /\ ~ret.done
    /\ ret' = Returned(parseCSV(toCSV(arg)))
    /\ UNCHANGED <<csvVars, arg, appVars>>

SpecRoundTrip == InitRoundTrip /\ [][RoundTrip]_vars

RtHeadersTrimmed(rs) == \A x \in 1..Len(rs.headers) : trim(rs.headers[x]) = rs.headers[x]

\* the text ends with the line of a record whose only value is empty
RtEndsWithEmptyLine(rs) ==
    /\ ~rs.final
    /\ rs.values # <<>>
    /\ rs.values[Len(rs.values)] = EmptyRow

\* C4 as claimed: a record set with distinct headers, written with RFC 4180
\* quoting, is read back equal by parseCSV.
C4_RoundTrip == ret.done => ret.v = RtExpected(arg)

\* C4 as amended: the record set is read back equal when no header carries
\* leading or trailing white space and the text does not end, without a
\* final line break, in the empty line of a record whose only value is
\* empty.
C4_RoundTripTrimmedHeaders ==
    ret.done /\ RtHeadersTrimmed(arg) /\ ~RtEndsWithEmptyLine(arg)
        => ret.v = RtExpected(arg)

C4_Witness ==
    /\ ret.done
    /\ RtHeadersTrimmed(arg)
    /\ Len(arg.values) = 2
    /\ arg.values[1][1] \in {<<COMMA>>, <<QUOTE>>, <<LF>>, <<CR>>}
    /\ arg.values[2][1] \in {<<COMMA>>, <<QUOTE>>, <<LF>>, <<CR>>}
    /\ arg.values[1] # arg.values[2]
    /\ ret.v = RtExpected(arg)

-----------------------------------------------------------------------------
(* Case-insensitive field helpers, script.js 18-29 and 145-166 *)

UpperChars ==
    <<"A","B","C","D","E","F","G","H","I","J","K","L","M",
      "N","O","P","Q","R","S","T","U","V","W","X","Y","Z">>
LowerChars ==
    <<"a","b","c","d","e","f","g","h","i","j","k","l","m",
      "n","o","p","q","r","s","t","u","v","w","x","y","z">>
DigitChars == <<"0","1","2","3","4","5","6","7","8","9">>
Digits == {DigitChars[n] : n \in 1..10}

UpperSet == {UpperChars[n] : n \in 1..26}
LowerTable == [c \in UpperSet |-> LowerChars[CHOOSE n \in 1..26 : UpperChars[n] = c]]

toLowerChar(c) == IF c \in UpperSet THEN LowerTable[c] ELSE c

\* String.prototype.toLowerCase
toLowerCase(s) == [n \in 1..Len(s) |-> toLowerChar(s[n])]

FIELD_MAP ==
    [id |-> << <<"i","d">>, <<"u","i","d">>, <<"s","l","u","g">>, <<"c","o","m","p","e","t","i","t","i","o","n","_","i","d">> >>,
     title |-> << <<"C","o","m","p"," ","n","a","m","e">> >>,
     date |-> << <<"D","a","t","e">> >>,
     type |-> << <<"C","o","m","p"," ","f","o","r","m","a","t"," ","(","s","c","o","r","i","n","g"," ","t","y","p","e",")">>,
                 <<"C","o","m","p"," ","f","o","r","m","a","t">> >>,
     overview |-> << <<"C","o","m","p"," ","S","u","m","m","a","r","y">>,
                     <<"C","o","m","p"," ","D","e","s","c","r","i","p","t","i","o","n">> >>,
     details |-> << <<"C","o","m","p"," ","D","e","s","c","r","i","p","t","i","o","n">>,
                    <<"C","o","m","p"," ","S","u","m","m","a","r","y">> >>,
     link |-> << <<"l","i","n","k">>, <<"u","r","l">>, <<"w","e","b","s","i","t","e">>, <<"i","n","f","o","_","u","r","l">> >>]

\* FIELD_MAP[key] || []
candidatesOf(key) == IF key \in DOMAIN FIELD_MAP THEN FIELD_MAP[key] ELSE <<>>

\* the lowercase-keyed mirror of the columns (script.js 147-148)
RECURSIVE mirrorOf(_, _)
mirrorOf(cols, m) ==
    IF cols = <<>> THEN m
    ELSE mirrorOf(Tail(cols), ObjSet(m, toLowerCase(Head(cols).k), Head(cols).v))

\* what buildLc returns: the cached mirror, or a new one
buildLc(rec) == IF rec.lc.has THEN rec.lc.m ELSE mirrorOf(rec.cols, <<>>)

\* the record after buildLc: the mirror is stored on it as __lc
withLc(rec) == [rec EXCEPT !.lc = [has |-> TRUE, m |-> buildLc(rec)]]

\* a mutant: the first candidate column decides, empty or not
getFieldFirstCandidate(rec, key) ==
    LET lc == buildLc(rec)
        cs == candidatesOf(key)
    IN IF cs # <<>> /\ ObjHas(lc, toLowerCase(cs[1])) THEN ObjGet(lc, toLowerCase(cs[1]))
       ELSE <<>>

RECURSIVE firstNonEmpty(_, _)
firstNonEmpty(lc, cs) ==
    IF cs = <<>> THEN <<>>
    ELSE LET name == toLowerCase(Head(cs)) IN
         IF ObjHas(lc, name) /\ ObjGet(lc, name) # <<>> THEN ObjGet(lc, name)
         ELSE firstNonEmpty(lc, Tail(cs))

\* script.js 152-160 (its value; its effect on rec is withLc)
getField(rec, key) == firstNonEmpty(buildLc(rec), candidatesOf(key))

\* script.js 162-166
getByHeader(rec, header) ==
    IF header = <<>> THEN <<>>
    ELSE LET lc == buildLc(rec) IN
         IF ObjHas(lc, toLowerCase(header)) THEN ObjGet(lc, toLowerCase(header)) ELSE <<>>

-----------------------------------------------------------------------------
(* getField applied to one record *)

MaxFieldCols == 3

FieldHeaderPool ==
    { <<"i","d">>, <<"I","D">>, <<"u","i","d">>, <<"S","l","u","g">>,
      <<"C","o","m","p"," ","f","o","r","m","a","t">>,
      <<"C","O","M","P"," ","F","O","R","M","A","T"," ","(","S","C","O","R","I","N","G"," ","T","Y","P","E",")">> }

FieldKeys == DOMAIN FIELD_MAP \cup {"nope"}

\* column n holds nothing or the digit n, so a value tells its column
FieldCols(n) ==
    { [x \in 1..n |-> [k |-> hs[x], v |-> IF x \in full THEN <<DigitChars[x + 1]>> ELSE <<>>]]
      : hs \in {f \in [1..n -> FieldHeaderPool] : \A x, y \in 1..n : x # y => f[x] # f[y]},
        full \in SUBSET (1..n) }

FieldRecords ==
    { [cols |-> c, lc |-> NoLc, fuzzy |-> NoFuzzy]
      : c \in UNION {FieldCols(n) : n \in 0..MaxFieldCols} }

InitField == arg \in [rec : FieldRecords, key : FieldKeys] /\ ret = NoRet /\ CsvIdle

GetField ==
    /\ ~ret.done
    /\ ret' = Returned(getField(arg.rec, arg.key))
    /\ arg' = [arg EXCEPT !.rec = withLc(@)]
    /\ UNCHANGED <<csvVars, appVars>>

SpecField == InitField /\ [][GetField]_vars

\* candidate n of the key has a column, matched without regard to case,
\* that holds a value
Populated(cols, cs, n) ==
    \E x \in 1..Len(cols) :
        toLowerCase(cols[x].k) = toLowerCase(cs[n]) /\ cols[x].v # <<>>

\* C8: getField returns the value of the first candidate, in FIELD_MAP
\* order, that has a case-insensitively matched column with a non-empty
\* value, whatever the order of the columns, and the empty string when there
\* is none or the key is unknown.
C8_FirstCandidateWins ==
    ret.done =>
        LET cols == arg.rec.cols
            cs == candidatesOf(arg.key)
            P == {n \in 1..Len(cs) : Populated(cols, cs, n)}
        IN IF P = {} THEN ret.v = <<>>
           ELSE \E x \in 1..Len(cols) :
                    /\ toLowerCase(cols[x].k) = toLowerCase(cs[Kth(P, 1)])
                    /\ cols[x].v # <<>>
                    /\ ret.v = cols[x].v

\* no two columns of the record have the same header up to case
DistinctLowered(cols) ==
    \A x, y \in 1..Len(cols) : x # y => toLowerCase(cols[x].k) # toLowerCase(cols[y].k)

\* the last column whose header is name up to case, 0 when there is none
LastColumn(cols, name) ==
    LET M == {x \in 1..Len(cols) : toLowerCase(cols[x].k) = toLowerCase(name)} IN
    IF M = {} THEN 0 ELSE CHOOSE x \in M : \A y \in M : y <= x

\* C8 with the column made definite: of the columns whose headers are a
\* candidate's name up to case, the last one in column order is the matched
\* column; getField returns the value of the first candidate whose matched
\* column is non-empty, and the empty string when there is none.
C8_FirstCandidateLastColumnWins ==
    ret.done =>
        LET cols == arg.rec.cols
            cs == candidatesOf(arg.key)
            P == {n \in 1..Len(cs) : /\ LastColumn(cols, cs[n]) # 0
                                     /\ cols[LastColumn(cols, cs[n])].v # <<>>}
        IN IF P = {} THEN ret.v = <<>>
           ELSE ret.v = cols[LastColumn(cols, cs[Kth(P, 1)])].v

C8_Witness ==
    /\ ret.done
    /\ arg.key = "id"
    /\ DistinctLowered(arg.rec.cols)
    /\ \E x, y \in 1..Len(arg.rec.cols) :
          /\ x < y
          /\ toLowerCase(arg.rec.cols[x].k) = FIELD_MAP.id[3]
          /\ arg.rec.cols[x].v # <<>>
          /\ arg.rec.cols[y].k = FIELD_MAP.id[2]
          /\ arg.rec.cols[y].v # <<>>
          /\ ret.v = arg.rec.cols[y].v

-----------------------------------------------------------------------------
(* Record normalizer, script.js 171-183 *)

Alnum == {LowerChars[n] : n \in 1..26} \cup Digits
HYPHEN == "-"
SlugMax == 80

\* s.split(sep) for a separator that matches one or more characters that
\* are in S (inS) or not in S (~inS): the text before the first separator
\* character, the non-empty texts between separator characters, and the text
\* after the last one
split(s, S, inS) ==
    Apply({n \in 1..Len(s) : (s[n] \in S) = inS}, LAMBDA seps :
        LET last == Cardinality(seps) + 1
            from(k) == IF k = 1 THEN 1 ELSE Kth(seps, k - 1) + 1
            to(k) == IF k = last THEN Len(s) ELSE Kth(seps, k) - 1
        IN Apply([k \in 1..last |-> SubSeq(s, from(k), to(k))], LAMBDA cut :
               IF last <= 2 THEN cut
               ELSE <<cut[1]>>
                    \o SelectSeq(SubSeq(cut, 2, last - 1), LAMBDA piece : piece # <<>>)
                    \o <<cut[last]>>))

\* pieces.join(sep)
RECURSIVE join(_, _)
join(pieces, sep) ==
    IF pieces = <<>> THEN <<>>
    ELSE IF Len(pieces) = 1 THEN pieces[1]
    ELSE pieces[1] \o sep \o join(Tail(pieces), sep)

\* s.slice(0, n)
slice0(s, n) == SubSeq(s, 1, IF Len(s) < n THEN Len(s) ELSE n)

ItemStr == <<"i","t","e","m">>
CompetitionStr == <<"c","o","m","p","e","t","i","t","i","o","n">>
UntitledStr == <<"U","n","t","i","t","l","e","d"," ","c","o","m","p","e","t","i","t","i","o","n">>

\* script.js 171-173
makeSlug(s) ==
    LET lowered == toLowerCase(IF s = <<>> THEN ItemStr ELSE s)
        dashed == join(split(lowered, Alnum, FALSE), <<HYPHEN>>)
        noHead == IF dashed # <<>> /\ Head(dashed) = HYPHEN THEN Tail(dashed) ELSE dashed
        noTail == IF noHead # <<>> /\ noHead[Len(noHead)] = HYPHEN
                  THEN SubSeq(noHead, 1, Len(noHead) - 1) ELSE noHead
        cut == slice0(noTail, SlugMax)
    IN IF cut = <<>> THEN ItemStr ELSE cut

Or(a, b) == IF a # <<>> THEN a ELSE b

\* normalizeRecord taking the slug of the title whatever the id field holds
normalizeRecordSlugOnly(rec) ==
    [id |-> makeSlug(Or(getField(rec, "title"), CompetitionStr)),
     title |-> Or(getField(rec, "title"), UntitledStr),
     date |-> getField(rec, "date"),
     type |-> getField(rec, "type"),
     overview |-> getField(rec, "overview"),
     link |-> getField(rec, "link")]

\* script.js 174-183
normalizeRecord(rec) ==
    [id |-> Or(getField(rec, "id"), makeSlug(Or(getField(rec, "title"), CompetitionStr))),
     title |-> Or(getField(rec, "title"), UntitledStr),
     date |-> getField(rec, "date"),
     type |-> getField(rec, "type"),
     overview |-> getField(rec, "overview"),
     link |-> getField(rec, "link")]

\* makeSlug of one string: the strings of up to MaxSlugLen characters, and
\* strings that are longer than the cap
MaxSlugLen == 3
SlugChars == {"a", "B", "1", HYPHEN, SP, "!"}
Repeat(c, n) == [k \in 1..n |-> c]
LongPlain == Repeat("a", SlugMax + 5)
LongHyphenAtCap == Repeat("a", SlugMax - 1) \o <<SP, "b">>
SlugInputs == StringsUpTo(SlugChars, MaxSlugLen) \cup {LongPlain, LongHyphenAtCap}

InitSlug == arg \in SlugInputs /\ ret = NoRet /\ CsvIdle

Slug ==
    /\ ~ret.done
    /\ ret' = Returned(makeSlug(arg))
    /\ UNCHANGED <<csvVars, arg, appVars>>

SpecSlug == InitSlug /\ [][Slug]_vars

\* C19: a slug is not empty, has at most 80 characters, all of them a-z,
\* 0-9 or hyphens, has no two adjacent hyphens, and neither begins nor ends
\* with a hyphen.
C19_SlugShape ==
    ret.done =>
        LET slug == ret.v IN
        /\ slug # <<>>
        /\ Len(slug) <= SlugMax
        /\ \A n \in 1..Len(slug) : slug[n] \in Alnum \cup {HYPHEN}
        /\ \A n \in 1..(Len(slug) - 1) : ~(slug[n] = HYPHEN /\ slug[n + 1] = HYPHEN)
        /\ slug[1] # HYPHEN
        /\ slug[Len(slug)] # HYPHEN

\* normalizeRecord of one record: an id-like column or none, a title column
\* or none
MaxTitleLen == 2
NormIdHeaders == {FIELD_MAP.id[1], FIELD_MAP.id[3]}
NormIdValues == {<<>>, <<"7">>, <<SP>>}
NormTitles == StringsUpTo({"a", "B", "!", SP}, MaxTitleLen)
NormIdCols == {<<>>} \cup {<<[k |-> h, v |-> x]>> : h \in NormIdHeaders, x \in NormIdValues}
NormTitleCols == {<<>>} \cup {<<[k |-> FIELD_MAP.title[1], v |-> t]>> : t \in NormTitles}
NormRecords ==
    {[cols |-> a \o b, lc |-> NoLc, fuzzy |-> NoFuzzy] : a \in NormIdCols, b \in NormTitleCols}

InitNormalize == arg \in NormRecords /\ ret = NoRet /\ CsvIdle

Normalize ==
    /\ ~ret.done
    /\ ret' = Returned(normalizeRecord(arg))
    /\ arg' = withLc(arg)
    /\ UNCHANGED <<csvVars, appVars>>

SpecNormalize == InitNormalize /\ [][Normalize]_vars

\* what the column of rec whose header is a candidate of key holds
ColumnOf(rec, key) ==
    LET hits == {n \in 1..Len(rec.cols) :
                    \E c \in 1..Len(FIELD_MAP[key]) :
                        toLowerCase(rec.cols[n].k) = toLowerCase(FIELD_MAP[key][c])}
    IN IF hits = {} THEN <<>> ELSE rec.cols[CHOOSE n \in hits : TRUE].v

HasAlnum(s) == \E n \in 1..Len(s) : toLowerChar(s[n]) \in Alnum

\* C18 as stated: the id is the id field when it is not empty and otherwise
\* the slug of the title; it is "item" when the record has neither, or when
\* the title has no alphanumeric character.
C18_IdOrItem ==
    ret.done =>
        LET id == ColumnOf(arg, "id")
            title == ColumnOf(arg, "title")
        IN /\ id # <<>> => ret.v.id = id
           /\ (id = <<>> /\ title # <<>>) => ret.v.id = makeSlug(title)
           /\ (id = <<>> /\ ~HasAlnum(title)) => ret.v.id = ItemStr

\* C18, amended: the id is the id field when it is not empty and otherwise
\* the slug of the title; it is "competition" when the record has neither,
\* and "item" when the title is not empty and has no alphanumeric character.
C18_IdOrCompetition ==
    ret.done =>
        LET id == ColumnOf(arg, "id")
            title == ColumnOf(arg, "title")
        IN /\ id # <<>> => ret.v.id = id
           /\ (id = <<>> /\ title # <<>>) => ret.v.id = makeSlug(title)
           /\ (id = <<>> /\ title = <<>>) => ret.v.id = CompetitionStr
           /\ (id = <<>> /\ title # <<>> /\ ~HasAlnum(title)) => ret.v.id = ItemStr

C18_Witness ==
    /\ ret.done
    /\ ColumnOf(arg, "id") = <<>>
    /\ ColumnOf(arg, "title") = <<>>
    /\ ret.v.id = CompetitionStr

-----------------------------------------------------------------------------
(* Search / fuzzy helpers, script.js 188-216 *)

Min3(a, b, c) == IF a <= b /\ a <= c THEN a ELSE IF b <= c THEN b ELSE c

\* row i of the table, from row i - 1: cur holds dp[i][0 .. Len(cur) - 1]
RECURSIVE fillRow(_, _, _, _)
fillRow(prev, cur, ch, b) ==
    LET j == Len(cur) IN
    IF j > Len(b) THEN cur
    ELSE fillRow(prev,
                 Append(cur, Min3(prev[j + 1] + 1, cur[j] + 1,
                                  prev[j] + (IF ch = b[j] THEN 0 ELSE 1))),
                 ch, b)

RECURSIVE levRows(_, _, _, _)
levRows(a, b, n, prev) ==
    IF n > Len(a) THEN prev[Len(b) + 1]
    ELSE levRows(a, b, n + 1, fillRow(prev, <<n>>, a[n], b))

\* script.js 188-198
levenshtein(a, b) ==
    Apply(<<toLowerCase(a), toLowerCase(b)>>,
          LAMBDA l : levRows(l[1], l[2], 1, [j \in 1..(Len(l[2]) + 1) |-> j - 1]))

\* text.includes(t)
includes(text, t) ==
    \E k \in 0..(Len(text) - Len(t)) : SubSeq(text, k + 1, k + Len(t)) = t

ObjectStr == <<"[","o","b","j","e","c","t"," ","O","b","j","e","c","t","]">>

\* String(v) of each own enumerable property value, in property order: the
\* columns, then __lc (an object) and __fuzzy (a boolean) when present
ObjectValueStrings(rec) ==
    [n \in 1..Len(rec.cols) |-> rec.cols[n].v]
    \o (IF rec.lc.has THEN <<ObjectStr>> ELSE <<>>)
    \o (IF rec.fuzzy = NoFuzzy THEN <<>>
        ELSE IF rec.fuzzy = "true" THEN << <<"t","r","u","e">> >> ELSE << <<"f","a","l","s","e">> >>)

\* script.js 200-202: normalizeRecord has run on rec, so __lc is set
searchText(rec) ==
    LET n == normalizeRecord(rec) IN
    toLowerCase(n.title \o <<SP>> \o n.type \o <<SP>> \o n.overview \o <<SP>>
                \o join(ObjectValueStrings(withLc(rec)), <<SP>>))

\* script.js 203
tokensOf(q) ==
    SelectSeq(split(trim(toLowerCase(q)), WhiteSpace, TRUE), LAMBDA t : t # <<>>)

\* script.js 209-211: best, or none when there is no chunk
RECURSIVE bestDistance(_, _, _)
bestDistance(t, chunks, best) ==
    IF chunks = <<>> THEN best
    ELSE LET c == Head(chunks) IN
         IF c = <<>> THEN bestDistance(t, Tail(chunks), best)
         ELSE Apply(<<levenshtein(t, c), best>>,
                    LAMBDA x : bestDistance(t, Tail(chunks),
                                            IF x[2].inf \/ x[1] < x[2].d
                                            THEN [inf |-> FALSE, d |-> x[1]] ELSE x[2]))

\* a mutant: an approximate match counts as much as an exact one
tokenPointsFlat(text, t) ==
    IF includes(text, t) THEN 3
    ELSE Apply(bestDistance(t, split(text, Alnum, FALSE), [inf |-> TRUE, d |-> 0]),
               LAMBDA best : IF ~best.inf /\ best.d <= 2 THEN 3 ELSE 0)

\* script.js 207-213: what one token adds to the score
tokenPoints(text, t) ==
    IF includes(text, t) THEN 3
    ELSE Apply(bestDistance(t, split(text, Alnum, FALSE), [inf |-> TRUE, d |-> 0]),
               LAMBDA best : IF ~best.inf /\ best.d = 1 THEN 2
                             ELSE IF ~best.inf /\ best.d = 2 THEN 1
                             ELSE 0)

RECURSIVE scoreTokens(_, _, _)
scoreTokens(text, tokens, acc) ==
    IF tokens = <<>> THEN acc
    ELSE scoreTokens(text, Tail(tokens),
                     [score |-> acc.score + tokenPoints(text, Head(tokens)),
                      anyExact |-> acc.anyExact \/ includes(text, Head(tokens))])

\* a mutant: a result is flagged as soon as one token is not exact
scoreRecordFlagsAnyApproximate(rec, q) ==
    Apply(tokensOf(q), LAMBDA tokens :
        IF tokens = <<>> THEN [score |-> 0, fuzzy |-> FALSE]
        ELSE Apply(searchText(rec), LAMBDA text :
                 Apply(scoreTokens(text, tokens, [score |-> 0, anyExact |-> FALSE]),
                       LAMBDA r : [score |-> r.score,
                                   fuzzy |-> /\ r.score > 0
                                             /\ \E n \in 1..Len(tokens) :
                                                    ~includes(text, tokens[n])])))

\* script.js 199-216
scoreRecord(rec, q) ==
    Apply(tokensOf(q), LAMBDA tokens :
        IF tokens = <<>> THEN [score |-> 0, fuzzy |-> FALSE]
        ELSE Apply(searchText(rec), LAMBDA text :
                 Apply(scoreTokens(text, tokens, [score |-> 0, anyExact |-> FALSE]),
                       LAMBDA r : [score |-> r.score, fuzzy |-> ~r.anyExact /\ r.score > 0])))

-----------------------------------------------------------------------------
(* scoreRecord applied to one record and one query *)

MaxScoreLen == 2
ScoreChars == {"a", "b", HYPHEN}
QueryChars == {"a", "b", SP}

TitleHeader == FIELD_MAP.title[1]
NotesHeader == <<"N","o","t","e","s">>

\* a title column of any value and a raw column that is empty or "ab"
ScoreRecords ==
    { [cols |-> << [k |-> TitleHeader, v |-> t], [k |-> NotesHeader, v |-> n] >>,
       lc |-> NoLc, fuzzy |-> NoFuzzy]
      : t \in StringsUpTo(ScoreChars, MaxScoreLen), n \in {<<>>, <<"a", "b">>} }

ScoreQueries == StringsUpTo(QueryChars, MaxScoreLen + 1)

\* a record that holds "Handicap Limit: 28" and the query "hanicap"
HandicapRecord ==
    [cols |-> << [k |-> TitleHeader, v |-> <<"a">>],
                 [k |-> NotesHeader, v |-> <<"H","a","n","d","i","c","a","p"," ","L","i","m","i","t",":"," ","2","8">>] >>,
     lc |-> NoLc, fuzzy |-> NoFuzzy]
HanicapQuery == <<"h","a","n","i","c","a","p">>

InitScore ==
    /\ arg \in [rec : ScoreRecords, q : ScoreQueries]
               \cup {[rec |-> HandicapRecord, q |-> HanicapQuery]}
    /\ ret = NoRet
    /\ CsvIdle

ScoreRecord ==
    /\ ~ret.done
    /\ ret' = Returned(scoreRecord(arg.rec, arg.q))
    /\ arg' = [arg EXCEPT !.rec = withLc(@)]
    /\ UNCHANGED <<csvVars, appVars>>

SpecScore == InitScore /\ [][ScoreRecord]_vars

\* the maximal runs of s, as <<first, last>>, of characters that are not
\* separators; a separator is a character in S (inS) or not in S (~inS)
RunsOf(s, S, inS) ==
    LET sep(n) == (s[n] \in S) = inS IN
    { <<a, b>> \in (1..Len(s)) \X (1..Len(s)) :
        /\ a <= b
        /\ \A n \in a..b : ~sep(n)
        /\ a = 1 \/ sep(a - 1)
        /\ b = Len(s) \/ sep(b + 1) }

SmallSubsets(n, k) ==
    {{}} \cup (IF k >= 1 THEN {{x} : x \in 1..n} ELSE {})
         \cup (IF k >= 2 THEN {{x, y} : x, y \in 1..n} ELSE {})

Hamming(x, y) == Cardinality({n \in 1..Len(x) : x[n] # y[n]})

\* b is reached from a by at most k (k <= 2) insertions, deletions and
\* substitutions: delete some characters of either, substitute in the rest
EditsWithin(a, b, k) ==
    \E Da \in SmallSubsets(Len(a), k) :
        \E Db \in SmallSubsets(Len(b), k - Cardinality(Da)) :
            /\ Len(a) - Cardinality(Da) = Len(b) - Cardinality(Db)
            /\ Hamming(Pick(a, (1..Len(a)) \ Da), Pick(b, (1..Len(b)) \ Db))
                   <= k - Cardinality(Da) - Cardinality(Db)

\* the least number of edits between t and a chunk of text, 3 for more than 2
MinEdits(text, t) ==
    LET chunks == {SubSeq(text, r[1], r[2]) : r \in RunsOf(text, Alnum, FALSE)} IN
    IF \E c \in chunks : EditsWithin(t, c, 0) THEN 0
    ELSE IF \E c \in chunks : EditsWithin(t, c, 1) THEN 1
    ELSE IF \E c \in chunks : EditsWithin(t, c, 2) THEN 2
    ELSE 3

PointsFor(text, t) ==
    IF includes(text, t) THEN 3
    ELSE IF MinEdits(text, t) = 1 THEN 2
    ELSE IF MinEdits(text, t) = 2 THEN 1
    ELSE 0

RECURSIVE SumPoints(_, _, _)
SumPoints(text, q, runs) ==
    IF runs = {} THEN 0
    ELSE LET r == CHOOSE r \in runs : TRUE IN
         PointsFor(text, SubSeq(q, r[1], r[2])) + SumPoints(text, q, runs \ {r})

\* C9: the score is the sum over the whitespace-separated lowercased tokens
\* of 3 for a substring of the search text, else 2 for a least edit distance
\* of 1 to a chunk, 1 for a least distance of 2, else 0; it lies between 0
\* and 3 times the number of tokens.
C9_ScoreIsSumOfTokenPoints ==
    ret.done =>
        LET q == toLowerCase(arg.q)
            runs == RunsOf(q, WhiteSpace, TRUE)
        IN /\ ret.v.score = SumPoints(searchText(arg.rec), q, runs)
           /\ ret.v.score \in 0..(3 * Cardinality(runs))

\* an exact token and a token one edit away from a chunk
C9_Witness ==
    /\ ret.done
    /\ Len(tokensOf(arg.q)) = 2
    /\ ret.v.score = 5

\* C11: the result is flagged fuzzy-only iff its score is above 0 and no
\* token of the query is a substring of the search text; one exact token is
\* enough for the result not to be flagged.
C11_FuzzyOnlyIffNoExactToken ==
    ret.done =>
        LET q == toLowerCase(arg.q)
            text == searchText(arg.rec)
            exact == \E run \in RunsOf(q, WhiteSpace, TRUE) :
                         includes(text, SubSeq(q, run[1], run[2]))
        IN ret.v.fuzzy = (ret.v.score > 0 /\ ~exact)

\* "hanicap" is one edit from the chunk "handicap" and exact nowhere
C11_Witness ==
    /\ ret.done
    /\ arg.q = HanicapQuery
    /\ arg.rec.cols = HandicapRecord.cols
    /\ ret.v.score = 2
    /\ ret.v.fuzzy

-----------------------------------------------------------------------------
(* Safe HTML, script.js 238-296.  A markup string is the sequence of nodes  *)
(* the browser parses it into; an attribute is [name, value].              *)

ALLOWED_TAGS == {"P", "BR", "B", "I", "EM", "STRONG", "A", "SPAN"}

Text(s) == [type |-> "text", tag |-> "", attrs |-> <<>>, kids |-> <<>>, data |-> s]
Comment(s) == [type |-> "comment", tag |-> "", attrs |-> <<>>, kids |-> <<>>, data |-> s]
Element(tag, attrs, kids) ==
    [type |-> "element", tag |-> tag, attrs |-> attrs, kids |-> kids, data |-> <<>>]

Attr(name, value) == [name |-> name, value |-> value]

\* child.getAttribute(name) || ""
getAttribute(el, name) ==
    IF \E n \in 1..Len(el.attrs) : el.attrs[n].name = name
    THEN el.attrs[CHOOSE n \in 1..Len(el.attrs) : el.attrs[n].name = name].value
    ELSE <<>>

COLON == ":"
SLASH == "/"
HttpStr == <<"h","t","t","p">>
HttpsStr == <<"h","t","t","p","s">>

\* the scheme of an absolute URL, lowercased; <<>> for a relative one
schemeOf(url) ==
    LET C == {n \in 1..Len(url) : url[n] = COLON} IN
    IF C = {} THEN <<>>
    ELSE LET pre == toLowerCase(SubSeq(url, 1, Kth(C, 1) - 1)) IN
         IF /\ pre # <<>>
            /\ pre[1] \in Alnum \ Digits
            /\ \A n \in 1..Len(pre) : pre[n] \in Alnum \cup {"+", "-", "."}
         THEN pre ELSE <<>>

RECURSIVE dropSlashes(_)
dropSlashes(s) == IF s # <<>> /\ Head(s) = SLASH THEN dropSlashes(Tail(s)) ELSE s

\* script.js 239-242: new URL(url, window.location.origin), the page being
\* served over http(s); a relative url (the empty one included) resolves
\* against the origin, an absolute one needs a host
isSafeHttpUrl(url) ==
    LET sch == schemeOf(url) IN
    IF sch = <<>> THEN TRUE
    ELSE /\ sch \in {HttpStr, HttpsStr}
         /\ dropSlashes(SubSeq(url, Len(sch) + 2, Len(url))) # <<>>

ClassChars == Alnum \cup UpperSet \cup {"_", "-"}
ClassTokenMax == 64

\* script.js 243-246
sanitizeClassValue(raw) ==
    IF raw = <<>> THEN <<>>
    ELSE join(SelectSeq(split(raw, WhiteSpace, TRUE),
                        LAMBDA t : /\ t # <<>>
                                   /\ Len(t) <= ClassTokenMax
                                   /\ \A n \in 1..Len(t) : t[n] \in ClassChars),
              <<SP>>)

ClassAttr(el) ==
    LET clean == sanitizeClassValue(getAttribute(el, "class")) IN
    IF clean # <<>> THEN <<Attr("class", clean)>> ELSE <<>>

BlankStr == <<"_","b","l","a","n","k">>
RelStr == <<"n","o","o","p","e","n","e","r"," ","n","o","r","e","f","e","r","r","e","r">>

RECURSIVE sanitizeKids(_)
RECURSIVE sanitizeChild(_)

\* one pass of the forEach over the snapshot of the children (script.js
\* 261-293): what the child leaves in its parent
sanitizeChild(child) ==
    IF child.type = "element"
    THEN IF child.tag \notin ALLOWED_TAGS
         THEN child.kids
         ELSE IF child.tag = "A"
         THEN LET href == getAttribute(child, "href") IN
              IF isSafeHttpUrl(href)
              THEN << Element(child.tag,
                              <<Attr("href", href), Attr("target", BlankStr),
                                Attr("rel", RelStr)>> \o ClassAttr(child),
                              sanitizeKids(child.kids)) >>
              ELSE child.kids
         ELSE << Element(child.tag, ClassAttr(child), sanitizeKids(child.kids)) >>
    ELSE IF child.type = "comment" THEN <<>>
    ELSE <<child>>

sanitizeKids(kids) ==
    IF kids = <<>> THEN <<>>
    ELSE sanitizeChild(Head(kids)) \o sanitizeKids(Tail(kids))

\* script.js 256-296, on the parsed input and before serialization
sanitizeBasicHTML(input) == sanitizeKids(input)

-----------------------------------------------------------------------------
(* sanitizeBasicHTML applied to one markup tree *)

MaxDepth == 2

TextT == Text(<<"t">>)
TextAB == Text(<<"a", "B">>)
CommentC == Comment(<<"c">>)
Leaves == {TextT, TextAB, CommentC}

SafeHref == <<"h","t","t","p","s",":","/","/","x">>
ScriptHref == <<"j","a","v","a","s","c","r","i","p","t",":","x">>
RelativeHref == <<SLASH, "x">>
OkClass == <<"c">>
MixedClass == <<"c", SP, "!">>

\* tag and attributes of the elements of the inputs
ElementKinds ==
    { <<"B", <<>>>>,
      <<"B", <<Attr("onclick", <<"x">>), Attr("class", OkClass)>>>>,
      <<"SPAN", <<Attr("class", MixedClass)>>>>,
      <<"A", <<Attr("href", SafeHref), Attr("onclick", <<"x">>)>>>>,
      <<"A", <<Attr("href", ScriptHref)>>>>,
      <<"A", <<Attr("href", RelativeHref)>>>>,
      <<"A", <<>>>>,
      <<"DIV", <<>>>>,
      <<"MARK", <<>>>>,
      <<"SCRIPT", <<>>>>,
      <<"IMG", <<Attr("onerror", <<"x">>)>>>> }

\* what the HTML parser can produce: IMG is void, SCRIPT holds text only and
\* a link is never inside a link
RECURSIVE Parsed(_, _)
Parsed(t, inLink) ==
    \/ t.type # "element"
    \/ /\ t.tag = "IMG" => t.kids = <<>>
       /\ t.tag = "SCRIPT" => \A n \in 1..Len(t.kids) : t.kids[n].type = "text"
       /\ t.tag = "A" => ~inLink
       /\ \A n \in 1..Len(t.kids) : Parsed(t.kids[n], inLink \/ t.tag = "A")

\* trees of depth at most d in which an element has at most one child
RECURSIVE Trees(_)
Trees(d) ==
    IF d = 0 THEN Leaves
    ELSE LET below == Trees(d - 1) IN
         Leaves \cup { t \in { Element(k[1], k[2], ks)
                               : k \in ElementKinds,
                                 ks \in {<<>>} \cup {<<b>> : b \in below} }
                       : Parsed(t, FALSE) }

\* a tree, alone or beside a leaf
SanitizeInputs ==
    LET T == Trees(MaxDepth) IN
    {<<>>} \cup {<<t>> : t \in T}
           \cup {<<t, l>> : t \in T, l \in Leaves} \cup {<<l, t>> : t \in T, l \in Leaves}

InitSanitize == arg \in SanitizeInputs /\ ret = NoRet /\ CsvIdle

Sanitize ==
    /\ ~ret.done
    /\ ret' = Returned(sanitizeBasicHTML(arg))
    /\ UNCHANGED <<csvVars, arg, appVars>>

SpecSanitize == InitSanitize /\ [][Sanitize]_vars

\* the nodes of a markup, at any depth
RECURSIVE NodesOf(_)
NodesOf(kids) ==
    IF kids = <<>> THEN {}
    ELSE {Head(kids)} \cup NodesOf(Head(kids).kids) \cup NodesOf(Tail(kids))

AttrNames(el) == {el.attrs[n].name : n \in 1..Len(el.attrs)}

\* C1: the output has no element outside the allow-list, no attribute but
\* class (href, target, rel and class on a link) and no comment, also when
\* disallowed elements are nested directly in disallowed elements.
C1_OutputIsSafe ==
    ret.done =>
        \A n \in NodesOf(ret.v) :
            /\ n.type # "comment"
            /\ n.type = "element" =>
                 /\ n.tag \in ALLOWED_TAGS
                 /\ AttrNames(n) \subseteq
                      (IF n.tag = "A" THEN {"href", "target", "rel", "class"} ELSE {"class"})

\* the nodes root.innerHTML = markup gives for the markup a node list
\* serializes to: text nodes that are neighbours come back as one
RECURSIVE reparsed(_)
reparsed(kids) ==
    IF kids = <<>> THEN <<>>
    ELSE IF Len(kids) >= 2 /\ kids[1].type = "text" /\ kids[2].type = "text"
    THEN reparsed(<<Text(kids[1].data \o kids[2].data)>> \o SubSeq(kids, 3, Len(kids)))
    ELSE IF kids[1].type = "element"
    THEN <<[kids[1] EXCEPT !.kids = reparsed(@)]>> \o reparsed(Tail(kids))
    ELSE <<kids[1]>> \o reparsed(Tail(kids))

\* url begins with http:// or https:// and names a host
AbsoluteHttp(url) ==
    \E p \in {HttpStr \o <<COLON, SLASH, SLASH>>, HttpsStr \o <<COLON, SLASH, SLASH>>} :
        /\ Len(url) > Len(p)
        /\ toLowerCase(SubSeq(url, 1, Len(p))) = p
        /\ url[Len(p) + 1] # SLASH

Links(kids) == {n \in NodesOf(kids) : n.type = "element" /\ n.tag = "A"}

\* C15: every link of the output has the href of a link of the input, an
\* absolute http or https URL, with target _blank and rel noopener
\* noreferrer; so a link whose href is missing, empty, relative or of
\* another scheme is not in the output.
C15_LinksAreAbsoluteHttp ==
    ret.done =>
        \A a \in Links(ret.v) :
            /\ "href" \in AttrNames(a)
            /\ AbsoluteHttp(getAttribute(a, "href"))
            /\ \E b \in Links(arg) : getAttribute(b, "href") = getAttribute(a, "href")
            /\ getAttribute(a, "target") = BlankStr
            /\ getAttribute(a, "rel") = RelStr

\* C14: sanitizeBasicHTML applied to its own output returns that output.
C14_Idempotent ==
    ret.done => reparsed(sanitizeBasicHTML(reparsed(ret.v))) = reparsed(ret.v)

-----------------------------------------------------------------------------
(* Highlighting of markup, script.js 297-325 *)

\* script.js 300: the lower-cased query cut at white space, empty pieces
\* dropped
highlightTokens(query) ==
    SelectSeq(split(toLowerCase(query), WhiteSpace, TRUE), LAMBDA t : t # <<>>)

\* the length of what rx matches at position p of val: the first alternative,
\* in token order, that equals the text there up to case; 0 when none does
\* (escapeRegex makes every token match literally)
matchAt(val, p, tokens) ==
    LET hits == {k \in 1..Len(tokens) :
                    /\ p + Len(tokens[k]) - 1 <= Len(val)
                    /\ toLowerCase(SubSeq(val, p, p + Len(tokens[k]) - 1)) = tokens[k]}
    IN IF hits = {} THEN 0
       ELSE Len(tokens[CHOOSE k \in hits : \A j \in hits : k <= j])

\* script.js 311: rx.test(val)
testRx(val, tokens) == \E p \in 1..Len(val) : matchAt(val, p, tokens) > 0

\* script.js 314-320: the fragment built by val.replace(rx, ...), scanning
\* from p with the unmarked text starting at last
RECURSIVE markFrom(_, _, _, _)
markFrom(val, p, last, tokens) ==
    IF p > Len(val)
    THEN IF last <= Len(val) THEN <<Text(SubSeq(val, last, Len(val)))>> ELSE <<>>
    ELSE LET n == matchAt(val, p, tokens) IN
         IF n = 0 THEN markFrom(val, p + 1, last, tokens)
         ELSE (IF p > last THEN <<Text(SubSeq(val, last, p - 1))>> ELSE <<>>)
              \o <<Element("MARK", <<>>, <<Text(SubSeq(val, p, p + n - 1))>>)>>
              \o markFrom(val, p + n, p + n, tokens)

\* script.js 310-322 for every text node of the container
RECURSIVE highlightKids(_, _)
highlightKids(kids, tokens) ==
    IF kids = <<>> THEN <<>>
    ELSE LET k == Head(kids) IN
         (IF k.type = "text"
          THEN IF testRx(k.data, tokens) THEN markFrom(k.data, 1, 1, tokens) ELSE <<k>>
          ELSE IF k.type = "element"
          THEN <<[k EXCEPT !.kids = highlightKids(@, tokens)]>>
          ELSE <<k>>)
         \o highlightKids(Tail(kids), tokens)

\* script.js 298-325
highlightHTML(html, query) ==
    IF trim(query) = <<>> THEN html
    ELSE LET tokens == highlightTokens(query) IN
         IF tokens = <<>> THEN html
         ELSE reparsed(highlightKids(reparsed(html), tokens))

\* a markup that sanitizeBasicHTML returned, and a query
HighlightQueries == {<<>>, <<SP>>, <<"t">>, <<"A", "b">>, <<"b", SP, "a">>}

HighlightMarkups == {reparsed(sanitizeBasicHTML(x)) : x \in SanitizeInputs}

InitHighlight ==
    /\ arg \in [html : HighlightMarkups, query : HighlightQueries]
    /\ ret = NoRet
    /\ CsvIdle

Highlight ==
    /\ ~ret.done
    /\ ret' = Returned(highlightHTML(arg.html, arg.query))
    /\ UNCHANGED <<csvVars, arg, appVars>>

SpecHighlight == InitHighlight /\ [][Highlight]_vars

\* kids with every mark element replaced by its children
RECURSIVE unmarked(_)
unmarked(kids) ==
    IF kids = <<>> THEN <<>>
    ELSE LET k == Head(kids) IN
         (IF k.type = "element"
          THEN IF k.tag = "MARK" THEN unmarked(k.kids)
               ELSE <<[k EXCEPT !.kids = unmarked(@)]>>
          ELSE <<k>>)
         \o unmarked(Tail(kids))

\* C16: the output of highlightHTML with its mark wrappers removed is the
\* input markup, and a query without tokens returns the input itself.
C16_HighlightChangesTextOnly ==
    ret.done =>
        /\ reparsed(unmarked(ret.v)) = arg.html
        /\ highlightTokens(arg.query) = <<>> => ret.v = arg.html

-----------------------------------------------------------------------------
(* Highlighting of plain text, script.js 221-230 *)

AMP == "&"
LT == "<"
GT == ">"
APOS == "'"

\* script.js 222: the replacement of one character
escapeChar(c) ==
    IF c = AMP THEN <<AMP, "a", "m", "p", ";">>
    ELSE IF c = LT THEN <<AMP, "l", "t", ";">>
    ELSE IF c = GT THEN <<AMP, "g", "t", ";">>
    ELSE IF c = QUOTE THEN <<AMP, "q", "u", "o", "t", ";">>
    ELSE IF c = APOS THEN <<AMP, "#", "3", "9", ";">>
    ELSE <<c>>

\* script.js 221-223
RECURSIVE escapeHTML(_)
escapeHTML(s) == IF s = <<>> THEN <<>> ELSE escapeChar(Head(s)) \o escapeHTML(Tail(s))

MarkOpen == <<LT, "m", "a", "r", "k", GT>>
MarkClose == <<LT, SLASH, "m", "a", "r", "k", GT>>

\* script.js 229: s.replace(rx, (m) => `<mark>${escapeHTML(m)}</mark>`) from
\* position p on
RECURSIVE replaceRx(_, _, _)
replaceRx(s, p, tokens) ==
    IF p > Len(s) THEN <<>>
    ELSE LET n == matchAt(s, p, tokens) IN
         IF n = 0 THEN <<s[p]>> \o replaceRx(s, p + 1, tokens)
         ELSE MarkOpen \o escapeHTML(SubSeq(s, p, p + n - 1)) \o MarkClose
              \o replaceRx(s, p + n, tokens)

\* highlightExact searching the text itself instead of the escaped text
highlightExactOfRawText(text, query) ==
    IF trim(query) = <<>> THEN escapeHTML(text)
    ELSE LET tokens == highlightTokens(query) IN
         IF tokens = <<>> THEN escapeHTML(text)
         ELSE replaceRx(text, 1, tokens)

\* script.js 224-230
highlightExact(text, query) ==
    IF trim(query) = <<>> THEN escapeHTML(text)
    ELSE LET tokens == highlightTokens(query) IN
         IF tokens = <<>> THEN escapeHTML(text)
         ELSE replaceRx(escapeHTML(text), 1, tokens)

MaxExactLen == 3
MaxExactQueryLen == 2
ExactChars == {LT, GT, AMP, "a", "M"}
ExactQueryChars == {LT, AMP, "a", "m", SP}
MarkupText == <<LT, "b", GT, "a", LT, SLASH, "b", GT>>
ExactTexts == StringsUpTo(ExactChars, MaxExactLen) \cup {MarkOpen, MarkupText}
ExactQueries ==
    StringsUpTo(ExactQueryChars, MaxExactQueryLen) \cup {<<"m", "a", "r", "k">>, <<"l", "t", SP, "B">>}

InitExact ==
    /\ arg \in [text : ExactTexts, query : ExactQueries]
    /\ ret = NoRet
    /\ CsvIdle

HighlightExact ==
    /\ ~ret.done
    /\ ret' = Returned(highlightExact(arg.text, arg.query))
    /\ UNCHANGED <<csvVars, arg, appVars>>

SpecExact == InitExact /\ [][HighlightExact]_vars

\* the positions of s where the text w begins
StartsOf(s, w) ==
    {p \in 1..Len(s) : p + Len(w) - 1 <= Len(s) /\ SubSeq(s, p, p + Len(w) - 1) = w}

\* C17: in the output of highlightExact every '<' begins a <mark> or a
\* </mark> and every '>' ends one, and these wrappers alternate, <mark>
\* first and </mark> last; so the text's own markup is there in escaped form
\* only.
C17_OnlyMarkWrappers ==
    ret.done =>
        LET out == ret.v
            opens == StartsOf(out, MarkOpen)
            closes == StartsOf(out, MarkClose)
            lts == {p \in 1..Len(out) : out[p] = LT}
        IN /\ lts = opens \cup closes
           /\ \A p \in 1..Len(out) :
                  out[p] = GT => (p - 5 \in opens \/ p - 6 \in closes)
           /\ Cardinality(opens) = Cardinality(closes)
           /\ \A p \in lts :
                  (p \in opens) = (Cardinality({r \in lts : r < p}) % 2 = 0)

C17_Witness ==
    /\ ret.done
    /\ \E p \in 1..Len(arg.text) : arg.text[p] \in {LT, GT}
    /\ StartsOf(ret.v, MarkOpen) # {}

-----------------------------------------------------------------------------
(* Filtering, searching and rendering, script.js 389-515 and 620-626 *)

max2(a, b) == IF a >= b THEN a ELSE b
min2(a, b) == IF a <= b THEN a ELSE b

\* the characters of the model in code unit order
CharOrder ==
    <<"\t", LF, CR, SP, "!", QUOTE, "(", ")", "+", COMMA, HYPHEN, ".", SLASH>>
    \o DigitChars \o <<COLON, "<", ">">> \o UpperChars \o <<"[", "]", "_">> \o LowerChars

codeOf(c) == CHOOSE n \in 1..Len(CharOrder) : CharOrder[n] = c

\* a <= b as Array.prototype.sort compares strings
RECURSIVE strLeq(_, _)
strLeq(a, b) ==
    IF a = <<>> THEN TRUE
    ELSE IF b = <<>> THEN FALSE
    ELSE IF Head(a) = Head(b) THEN strLeq(Tail(a), Tail(b))
    ELSE codeOf(Head(a)) < codeOf(Head(b))

RECURSIVE sortStrings(_)
sortStrings(S) ==
    IF S = {} THEN <<>>
    ELSE LET m == CHOOSE m \in S : \A x \in S : strLeq(m, x) IN
         <<m>> \o sortStrings(S \ {m})

\* script.js 397: the distinct non-empty trimmed types, sorted
rolesOf(all) ==
    sortStrings({trim(getField(all[n], "type")) : n \in 1..Len(all)} \ {<<>>})

\* script.js 421-423
tempOf(all, role) ==
    IF role # <<>>
    THEN SelectSeq(all, LAMBDA r : toLowerCase(getField(r, "type")) = toLowerCase(role))
    ELSE all

\* script.js 428, Object.values(r).some(val => (val || "").toLowerCase().includes(q)):
\* the columns are tried first; __lc is an object and a true __fuzzy a
\* boolean, and neither has a toLowerCase
someValueIncludes(r, q) ==
    IF \E n \in 1..Len(r.cols) : includes(toLowerCase(r.cols[n].v), q) THEN "true"
    ELSE IF r.lc.has \/ r.fuzzy = "true" THEN "TypeError"
    ELSE "false"

\* a mutant: a record goes before the records of equal score
RECURSIVE insertByScoreBeforeTies(_, _)
insertByScoreBeforeTies(sorted, x) ==
    IF sorted = <<>> THEN <<x>>
    ELSE IF Head(sorted).s.score > x.s.score
    THEN <<Head(sorted)>> \o insertByScoreBeforeTies(Tail(sorted), x)
    ELSE <<x>> \o sorted

RECURSIVE insertByScore(_, _)
insertByScore(sorted, x) ==
    IF sorted = <<>> THEN <<x>>
    ELSE IF Head(sorted).s.score >= x.s.score
    THEN <<Head(sorted)>> \o insertByScore(Tail(sorted), x)
    ELSE <<x>> \o sorted

\* Array.prototype.sort with (a, b) => b.s.score - a.s.score, which is stable
RECURSIVE sortByScore(_, _)
sortByScore(xs, acc) ==
    IF xs = <<>> THEN acc ELSE sortByScore(Tail(xs), insertByScore(acc, Head(xs)))

\* script.js 430-433
fuzzyResults(temp, q) ==
    Apply([n \in 1..Len(temp) |-> [rec |-> withLc(temp[n]), s |-> scoreRecord(temp[n], q)]],
          LAMBDA scored :
              Apply(sortByScore(SelectSeq(scored, LAMBDA x : x.s.score > 0), <<>>),
                    LAMBDA kept :
                        [n \in 1..Len(kept) |->
                           [kept[n].rec EXCEPT
                              !.fuzzy = IF kept[n].s.fuzzy THEN "true" ELSE "false"]]))

\* one card of the list: script.js 453-455, 477
cardOf(rawRec) ==
    Apply(normalizeRecord(rawRec),
          LAMBDA recN : [id |-> recN.id, title |-> recN.title, fuzzy |-> rawRec.fuzzy = "true"])

\* script.js 443-515: the page after clamping, and the list
render(flt, page, size) ==
    LET total == Len(flt)
        pages == max2(1, (total + size - 1) \div size)
        cur == min2(page, pages)
        start == (cur - 1) * size
    IN Apply(SubSeq(flt, start + 1, min2(start + size, total)),
             LAMBDA slice :
                 [currentPage |-> cur,
                  listEl |-> [error |-> FALSE,
                              cards |-> [n \in 1..Len(slice) |-> cardOf(slice[n])]],
                  prevBtn |-> cur <= 1,
                  nextBtn |-> cur >= pages])

\* script.js 418-438 on the batch all: what it leaves in filtered,
\* currentPage and the list, or that it raised at line 428 and left them alone
applyFilters(all, role, query, fuzzy, size) ==
    Apply(<<toLowerCase(trim(query)), tempOf(all, role)>>, LAMBDA a :
        LET q == a[1]
            temp == a[2]
        IN IF /\ q # <<>> /\ ~fuzzy
              /\ \E n \in 1..Len(temp) : someValueIncludes(temp[n], q) = "TypeError"
           THEN [raised |-> TRUE, filtered |-> <<>>, currentPage |-> 1,
                 listEl |-> [error |-> FALSE, cards |-> <<>>],
                 prevBtn |-> FALSE, nextBtn |-> FALSE]
           ELSE Apply(IF q = <<>> THEN temp
                      ELSE IF ~fuzzy
                      THEN SelectSeq(temp, LAMBDA r : someValueIncludes(r, q) = "true")
                      ELSE fuzzyResults(temp, q),
                      LAMBDA flt :
                          Apply(render(flt, 1, size),
                                LAMBDA r : [raised |-> FALSE, filtered |-> flt,
                                            currentPage |-> r.currentPage,
                                            listEl |-> r.listEl,
                                            prevBtn |-> r.prevBtn,
                                            nextBtn |-> r.nextBtn])))

-----------------------------------------------------------------------------
(* The widget as a process: the boot load, reloads and the UI events *)

MaxPending == 2

TypeHeader == FIELD_MAP.type[2]

\* the responses a load can get: a sheet, or none (a network error or a
\* status that is not a success)
AppCsvTexts ==
    { TitleHeader \o <<COMMA>> \o TypeHeader \o <<LF, "a", COMMA, "x", LF,
                                                  "b", COMMA, "Y", LF,
                                                  "a", "a", "a", COMMA, "x", LF>>,
      NotesHeader \o <<LF, "a", "a", "a", HYPHEN, LF>>,
      <<>> }

AppQueries == { <<>>, <<"b">>, <<"A", SP>> }

\* what parseInt(e.target.value, 10) gives for the options of the page-size
\* control; 0 stands for a value that is not a number
PageSizeInputs == {0, 1}

InitApp ==
    /\ csv = <<>> /\ i = 0 /\ inQuotes = FALSE /\ field = <<>> /\ row = <<>>
    /\ rows = <<>> /\ records = <<>> /\ pc = "idle"
    /\ FnIdle
    /\ allRecords = <<>> /\ filtered = <<>> /\ currentPage = 1
    /\ pageSize = DefaultPageSize /\ currentRole = <<>> /\ currentQuery = <<>>
    /\ fuzzyEnabled = FALSE /\ roleOptions = <<>>
    /\ listEl = [error |-> FALSE, cards |-> <<>>]
    /\ prevBtn = FALSE /\ nextBtn = FALSE
    /\ inputValue = <<>> /\ timer = 0 /\ raised = "none"
    \* script.js 648: the boot load is in flight
    /\ pending = 1

idleVars == <<csvVars, arg, ret>>

\* the refresh button (script.js 372): one more load in flight
Refresh ==
    /\ pending < MaxPending
    /\ pending' = pending + 1
    /\ raised' = "none"
    /\ UNCHANGED <<idleVars, allRecords, filtered, currentPage, pageSize, currentRole,
                   currentQuery, fuzzyEnabled, roleOptions, listEl, prevBtn, nextBtn,
                   inputValue, timer>>

\* script.js 390-392, 409-412: the fetch fails
LoadFails ==
    /\ pending > 0
    /\ pending' = pending - 1
    /\ listEl' = [error |-> TRUE, cards |-> <<>>]
    /\ raised' = "none"
    /\ UNCHANGED <<idleVars, allRecords, filtered, currentPage, pageSize, currentRole,
                   currentQuery, fuzzyEnabled, roleOptions, prevBtn, nextBtn, inputValue,
                   timer>>

\* script.js 393-401, 409-412: a response arrives (the page has no fragment);
\* getField at line 397 leaves __lc on every record of the batch
LoadResolves ==
    /\ pending > 0
    /\ pending' = pending - 1
    /\ \E text \in AppCsvTexts :
       \E parsed \in {parseCSV(text)} :
       \E all \in {[n \in 1..Len(parsed) |-> withLc(parsed[n])]} :
       \E f \in {applyFilters(all, currentRole, currentQuery, fuzzyEnabled, pageSize)} :
           /\ allRecords' = all
           /\ roleOptions' = rolesOf(all)
           /\ IF f.raised
              THEN /\ listEl' = [error |-> TRUE, cards |-> <<>>]
                   /\ raised' = "caught"
                   /\ UNCHANGED <<filtered, currentPage, prevBtn, nextBtn>>
              ELSE /\ filtered' = f.filtered
                   /\ currentPage' = f.currentPage
                   /\ listEl' = f.listEl
                   /\ prevBtn' = f.prevBtn
                   /\ nextBtn' = f.nextBtn
                   /\ raised' = "none"
    /\ UNCHANGED <<idleVars, pageSize, currentRole, currentQuery, fuzzyEnabled,
                   inputValue, timer>>

\* applyFilters run from an event handler, the globals holding role, query
\* and fuzzy: an exception is not caught
Filtered(role, query, fuzzy) ==
    \E f \in {applyFilters(allRecords, role, query, fuzzy, pageSize)} :
    IF f.raised
    THEN raised' = "uncaught" /\ UNCHANGED <<filtered, currentPage, listEl, prevBtn, nextBtn>>
    ELSE /\ filtered' = f.filtered
         /\ currentPage' = f.currentPage
         /\ listEl' = f.listEl
         /\ prevBtn' = f.prevBtn
         /\ nextBtn' = f.nextBtn
         /\ raised' = "none"

\* clearTimeout(t) without effect
clearTimeoutIgnored(n) == n

\* script.js 620, clearTimeout(t): the timer set by the event before, if it is
\* still set, is cancelled
clearTimeout(n) == IF n > 0 THEN n - 1 ELSE 0

MaxTimers == 2

\* an input event of the search box: the timer is set again (script.js 620)
SearchInput ==
    /\ \E v \in AppQueries : inputValue' = v
    /\ clearTimeout(timer) < MaxTimers
    /\ timer' = clearTimeout(timer) + 1
    /\ raised' = "none"
    /\ UNCHANGED <<idleVars, allRecords, filtered, currentPage, pageSize, currentRole,
                   currentQuery, fuzzyEnabled, roleOptions, listEl, prevBtn, nextBtn,
                   pending>>

\* the timer expires (script.js 621)
SearchFires ==
    /\ timer > 0
    /\ timer' = timer - 1
    /\ currentQuery' = inputValue
    /\ Filtered(currentRole, inputValue, fuzzyEnabled)
    /\ UNCHANGED <<idleVars, allRecords, pageSize, currentRole, fuzzyEnabled,
                   roleOptions, inputValue, pending>>

\* script.js 622: an option of the type control is chosen
RoleChange ==
    /\ \E v \in {<<>>} \cup {roleOptions[n] : n \in 1..Len(roleOptions)} :
        /\ currentRole' = v
        /\ Filtered(v, currentQuery, fuzzyEnabled)
    /\ UNCHANGED <<idleVars, allRecords, pageSize, currentQuery, fuzzyEnabled,
                   roleOptions, inputValue, timer, pending>>

\* script.js 626
FuzzyToggle ==
    /\ fuzzyEnabled' = ~fuzzyEnabled
    /\ Filtered(currentRole, currentQuery, ~fuzzyEnabled)
    /\ UNCHANGED <<idleVars, allRecords, pageSize, currentRole, currentQuery,
                   roleOptions, inputValue, timer, pending>>

\* the rest of a handler that ends in render()
Rendered(page, size) ==
    \E r \in {render(filtered, page, size)} :
    /\ currentPage' = r.currentPage
    /\ listEl' = r.listEl
    /\ prevBtn' = r.prevBtn
    /\ nextBtn' = r.nextBtn
    /\ raised' = "none"

\* script.js 623
PageSizeChange ==
    /\ \E n \in PageSizeInputs :
        LET size == IF n # 0 THEN n ELSE DefaultPageSize IN
        pageSize' = size /\ Rendered(1, size)
    /\ UNCHANGED <<idleVars, allRecords, filtered, currentRole, currentQuery,
                   fuzzyEnabled, roleOptions, inputValue, timer, pending>>

\* script.js 624
PrevPage ==
    /\ Rendered(max2(1, currentPage - 1), pageSize)
    /\ UNCHANGED <<idleVars, allRecords, filtered, pageSize, currentRole, currentQuery,
                   fuzzyEnabled, roleOptions, inputValue, timer, pending>>

\* script.js 625
NextPage ==
    /\ Rendered(currentPage + 1, pageSize)
    /\ UNCHANGED <<idleVars, allRecords, filtered, pageSize, currentRole, currentQuery,
                   fuzzyEnabled, roleOptions, inputValue, timer, pending>>

NextApp ==
    \/ Refresh \/ LoadFails \/ LoadResolves
    \/ SearchInput \/ SearchFires \/ RoleChange \/ FuzzyToggle
    \/ PageSizeChange \/ PrevPage \/ NextPage

SpecApp == InitApp /\ [][NextApp]_vars

\* the trimmed lowercased query
QueryText == toLowerCase(trim(currentQuery))

\* the records of the batch the type filter lets through, in batch order
Candidates ==
    SelectSeq(allRecords,
              LAMBDA r : \/ currentRole = <<>>
                         \/ toLowerCase(getField(r, "type")) = toLowerCase(currentRole))

ColumnContains(r, q) == \E n \in 1..Len(r.cols) : includes(toLowerCase(r.cols[n].v), q)

\* C2: with fuzzy search off and a non-empty query, once a batch is loaded,
\* the result is exactly the candidates with a column value that contains
\* the trimmed lowercased query, in batch order, and applyFilters did not
\* raise, also when some candidate has no matching column.
C2_ExactFilterCompletes ==
    (~fuzzyEnabled /\ QueryText # <<>> /\ allRecords # <<>>) =>
        /\ raised = "none"
        /\ filtered = SelectSeq(Candidates, LAMBDA r : ColumnContains(r, QueryText))

\* token t is a substring of a column value of r, or within two edits of an
\* alphanumeric chunk of one
OwnValueMatches(r, t) ==
    \E n \in 1..Len(r.cols) :
        LET v == toLowerCase(r.cols[n].v) IN
        \/ includes(v, t)
        \/ \E run \in RunsOf(v, Alnum, FALSE) : EditsWithin(t, SubSeq(v, run[1], run[2]), 2)

\* C10: in fuzzy mode a record is in the results only if some query token is
\* a substring of, or within edit distance 2 of an alphanumeric chunk of, one
\* of the record's own column values.
C10_FuzzyResultsMatchOwnValues ==
    (fuzzyEnabled /\ QueryText # <<>>) =>
        \A n \in 1..Len(filtered) :
            \E run \in RunsOf(QueryText, WhiteSpace, TRUE) :
                OwnValueMatches(filtered[n], SubSeq(QueryText, run[1], run[2]))

\* the score of candidate x for the current query
ScoreOf(x) == scoreRecord(Candidates[x], QueryText).score

\* candidate x comes before candidate y in a list by descending score that
\* keeps batch order among equal scores
Precedes(x, y) == ScoreOf(x) > ScoreOf(y) \/ (ScoreOf(x) = ScoreOf(y) /\ x < y)

\* a record without the flag applyFilters adds to its copies
Unflagged(r) == [r EXCEPT !.fuzzy = NoFuzzy]

\* C12: in fuzzy mode the result list is exactly the candidates with a score
\* above 0, by non-increasing score, records of equal score in batch order.
C12_FuzzyResultsRanked ==
    (fuzzyEnabled /\ QueryText # <<>>) =>
        LET S == {x \in 1..Len(Candidates) : ScoreOf(x) > 0} IN
        /\ Len(filtered) = Cardinality(S)
        /\ \A x \in S :
              Unflagged(filtered[1 + Cardinality({y \in S : Precedes(y, x)})]) = Candidates[x]

\* a lower-scored record has moved behind a later one, two of equal score
\* have kept their order
C12_Witness ==
    /\ fuzzyEnabled /\ QueryText # <<>> /\ currentRole = <<>>
    /\ Len(allRecords) = 3 /\ Len(filtered) = 3
    /\ Unflagged(filtered[1]) = allRecords[1]
    /\ Unflagged(filtered[2]) = allRecords[3]
    /\ Unflagged(filtered[3]) = allRecords[2]
    /\ ScoreOf(1) = ScoreOf(3) /\ ScoreOf(2) < ScoreOf(3)

\* C13: every record of the result is a candidate, that is a record of the
\* batch whose type equals the selected type up to case, or any record of
\* the batch when no type is selected; with no query the result is the
\* candidates.
C13_TypePreFilter ==
    /\ \A n \in 1..Len(filtered) :
          \E x \in 1..Len(Candidates) : Unflagged(filtered[n]) = Candidates[x]
    /\ QueryText = <<>> => filtered = Candidates

-----------------------------------------------------------------------------
(* Looking a record up by its id, script.js 520-525: a click on a card, or
   the fragment of the address after a load *)

\* the position of allRecords.find(r => ...) for the set hits of positions
\* that satisfy the predicate; 0 when find returns undefined
findFirst(hits) == IF hits = {} THEN 0 ELSE CHOOSE n \in hits : \A x \in hits : n <= x

\* findRecordById returning the last record that satisfies each predicate
findRecordByIdLast(id) ==
    IF id = <<>> THEN 0
    ELSE LET byId == {n \in 1..Len(allRecords) : getField(allRecords[n], "id") = id}
             bySlug == {n \in 1..Len(allRecords) :
                           makeSlug(Or(getField(allRecords[n], "title"), CompetitionStr)) = id}
             last(hits) == IF hits = {} THEN 0 ELSE CHOOSE n \in hits : \A x \in hits : n >= x
         IN IF byId # {} THEN last(byId) ELSE last(bySlug)

\* script.js 520-525: the position in allRecords of the record returned, 0
\* for null
findRecordById(id) ==
    IF id = <<>> THEN 0
    ELSE LET byId == {n \in 1..Len(allRecords) : getField(allRecords[n], "id") = id}
             bySlug == {n \in 1..Len(allRecords) :
                           makeSlug(Or(getField(allRecords[n], "title"), CompetitionStr)) = id}
         IN IF byId # {} THEN findFirst(byId) ELSE findFirst(bySlug)

\* a batch of up to MaxBatch records with an id column and a title column
MaxBatch == 2
BatchIds == {<<>>, <<"x">>, <<"a", HYPHEN, "b">>}
BatchTitles == {<<>>, <<"X">>, <<"A", SP, "b">>, <<"a", HYPHEN, "b">>}
BatchRecords ==
    {[cols |-> << [k |-> FIELD_MAP.id[1], v |-> x], [k |-> FIELD_MAP.title[1], v |-> t] >>,
      lc |-> NoLc, fuzzy |-> NoFuzzy] : x \in BatchIds, t \in BatchTitles}
Batches == UNION {[1..n -> BatchRecords] : n \in 0..MaxBatch}
FindIds == {<<>>, <<"x">>, <<"a", HYPHEN, "b">>, CompetitionStr}

\* the widget after the load of a batch (script.js 393-403), and the id to
\* look up
InitFind ==
    /\ csv = <<>> /\ i = 0 /\ inQuotes = FALSE /\ field = <<>> /\ row = <<>>
    /\ rows = <<>> /\ records = <<>> /\ pc = "idle"
    /\ arg \in FindIds
    /\ ret = NoRet
    /\ \E batch \in Batches :
       \E all \in {[n \in 1..Len(batch) |-> withLc(batch[n])]} :
       \E f \in {applyFilters(all, <<>>, <<>>, FALSE, DefaultPageSize)} :
           /\ allRecords = all
           /\ roleOptions = rolesOf(all)
           /\ filtered = f.filtered
           /\ currentPage = f.currentPage
           /\ listEl = f.listEl
           /\ prevBtn = f.prevBtn
           /\ nextBtn = f.nextBtn
    /\ pageSize = DefaultPageSize /\ currentRole = <<>> /\ currentQuery = <<>>
    /\ fuzzyEnabled = FALSE /\ inputValue = <<>> /\ timer = 0
    /\ pending = 0 /\ raised = "none"

FindRecord ==
    /\ ~ret.done
    /\ ret' = Returned(findRecordById(arg))
    /\ UNCHANGED <<csvVars, arg, appVars>>

SpecFind == InitFind /\ [][FindRecord]_vars

\* the positions of the records whose canonical id is id
WithCanonicalId(id) ==
    {n \in 1..Len(allRecords) : normalizeRecord(allRecords[n]).id = id}

-----------------------------------------------------------------------------
(* Date helpers, script.js 329-349.  A Date is the number of hours since
   0000-01-01 00:00 local time (null: NullDate; an invalid Date: NaNDate) *)

NullDate == [kind |-> "null", t |-> 0]
NaNDate == [kind |-> "NaN", t |-> 0]
DateAt(t) == [kind |-> "date", t |-> t]

IsDigit(c) == c \in Digits
digitOf(c) == CHOOSE n \in 0..9 : DigitChars[n + 1] = c

\* +s for a string of digits
RECURSIVE toNumber(_)
toNumber(s) ==
    IF s = <<>> THEN 0 ELSE 10 * toNumber(SubSeq(s, 1, Len(s) - 1)) + digitOf(s[Len(s)])

IsLeap(y) == (y % 4 = 0 /\ y % 100 # 0) \/ y % 400 = 0
DaysInMonth(y, m) ==
    IF m = 2 THEN (IF IsLeap(y) THEN 29 ELSE 28)
    ELSE IF m \in {4, 6, 9, 11} THEN 30 ELSE 31

\* the days from 0000-01-01 to the first day of year y
DaysBeforeYear(y) == 365 * y + (y + 3) \div 4 - (y + 99) \div 100 + (y + 399) \div 400

RECURSIVE DaysBeforeMonth(_, _)
DaysBeforeMonth(y, m) == IF m <= 1 THEN 0 ELSE DaysBeforeMonth(y, m - 1) + DaysInMonth(y, m - 1)

\* new Date(year, monthIndex, day): a year of 0..99 is a year of the 1900s,
\* a month index outside 0..11 carries into the year and a day outside the
\* month carries into the months
newDate(year, monthIndex, day) ==
    LET full == IF year \in 0..99 THEN 1900 + year ELSE year
        y == full + (monthIndex + 12) \div 12 - 1
        m == ((monthIndex + 12) % 12) + 1
    IN DateAt(24 * (DaysBeforeYear(y) + DaysBeforeMonth(y, m) + day - 1))

\* dt.setHours(0,0,0,0)
setHoursZero(dt) == IF dt.kind = "date" THEN DateAt(dt.t - (dt.t % 24)) ELSE dt

\* s.split(/[T\s]/)[0]
beforeTimePart(s) ==
    LET cuts == {n \in 1..Len(s) : s[n] = "T" \/ s[n] \in WhiteSpace}
    IN IF cuts = {} THEN s
       ELSE SubSeq(s, 1, (CHOOSE n \in cuts : \A x \in cuts : n <= x) - 1)

AllDigits(s) == \A n \in 1..Len(s) : IsDigit(s[n])

\* /^(\d{4})-(\d{2})-(\d{2})$/
matchesIso(s) ==
    /\ Len(s) = 10 /\ s[5] = HYPHEN /\ s[8] = HYPHEN
    /\ AllDigits(SubSeq(s, 1, 4)) /\ AllDigits(SubSeq(s, 6, 7)) /\ AllDigits(SubSeq(s, 9, 10))

\* /^(\d{1,2})\/(\d{1,2})\/(\d{4})$/: the three groups, or <<>> when the
\* text does not match
groupsUk(s) ==
    LET parts == split(s, {SLASH}, TRUE) IN
    IF /\ Cardinality({n \in 1..Len(s) : s[n] = SLASH}) = 2
       /\ Len(parts) = 3
       /\ Len(parts[1]) \in 1..2 /\ Len(parts[2]) \in 1..2 /\ Len(parts[3]) = 4
       /\ \A k \in 1..3 : AllDigits(parts[k])
    THEN parts ELSE <<>>

\* script.js 330-344; parsed is what new Date(s) gives for the trimmed
\* text, which the engine decides for a text of neither form
parseCompetitionDate(dateStr, parsed) ==
    IF dateStr = <<>> THEN NullDate
    ELSE LET s == trim(dateStr)
             dateOnly == beforeTimePart(s)
         IN IF matchesIso(dateOnly)
            THEN setHoursZero(newDate(toNumber(SubSeq(dateOnly, 1, 4)),
                                      toNumber(SubSeq(dateOnly, 6, 7)) - 1,
                                      toNumber(SubSeq(dateOnly, 9, 10))))
            ELSE IF groupsUk(dateOnly) # <<>>
            THEN LET g == groupsUk(dateOnly) IN
                 setHoursZero(newDate(toNumber(g[3]), toNumber(g[2]) - 1, toNumber(g[1])))
            ELSE IF parsed.kind # "NaN" THEN setHoursZero(parsed)
            ELSE NullDate

\* isPastDate comparing with the current time instead of today's midnight
isPastDateOfNow(eventDate, now) ==
    IF eventDate.kind = "null" THEN FALSE
    ELSE eventDate.t < now.t

\* script.js 345-349; now is what new Date() gives
isPastDate(eventDate, now) ==
    IF eventDate.kind = "null" THEN FALSE
    ELSE eventDate.t < setHoursZero(now).t

\* the date column of a record and the clock, script.js 466-467
DateYears == {<<"2","0","2","4">>, <<"2","0","2","3">>, <<"0","0","5","0">>}
DateMonths == {<<"0","6">>, <<"0","2">>, <<"1","3">>, <<"0","0">>, <<"0","7">>}
DateDays == {<<"1","4">>, <<"1","5">>, <<"1","6">>, <<"3","0">>, <<"0","0">>}
TimeParts == {<<>>, <<"T","0","9",":","3","0">>, <<" ","0","9",":","3","0">>}
IsoTexts == {y \o <<HYPHEN>> \o mo \o <<HYPHEN>> \o d \o tp :
                y \in DateYears, mo \in DateMonths, d \in DateDays, tp \in TimeParts}
UkTexts == {d \o <<SLASH>> \o mo \o <<SLASH>> \o y :
               d \in {<<"1","4">>, <<"1","5">>, <<"1","6">>, <<"5">>}, mo \in {<<"6">>, <<"0","6">>, <<"7">>}, y \in {<<"2","0","2","4">>, <<"2","0","2","3">>}}
NotADate == <<"n","o","t","-","a","-","d","a","t","e">>
LooseDate == <<"2","0","2","4","-","6","-","1","4">>
DateTexts == IsoTexts \cup UkTexts \cup {<<>>, NotADate, LooseDate, <<SP>> \o <<"2","0","2","4","-","0","6","-","1","4">>}

\* the clock: a day and an hour of that day
Clocks ==
    {[y |-> 2024, m |-> 6, d |-> 15, h |-> h] : h \in {0, 10, 23}}
    \cup {[y |-> 2024, m |-> 3, d |-> 1, h |-> 0]}
clockDate(c) == DateAt(newDate(c.y, c.m - 1, c.d).t + c.h)

HasDigit(s) == \E n \in 1..Len(s) : IsDigit(s[n])

\* what new Date(s) may give: an invalid Date for a text without a digit,
\* and for another text whatever the engine makes of it
NewDateOutcomes(s) ==
    IF ~HasDigit(s) THEN {NaNDate}
    ELSE {NaNDate, DateAt(newDate(2024, 5, 14).t), DateAt(newDate(2024, 5, 15).t + 13)}

InitDate ==
    /\ \E s \in DateTexts, c \in Clocks :
       \E p \in NewDateOutcomes(trim(s)) :
           arg = [dateStr |-> s, parsed |-> p, clock |-> c]
    /\ ret = NoRet
    /\ CsvIdle

ClassifyDate ==
    /\ ~ret.done
    /\ \E eventDate \in {parseCompetitionDate(arg.dateStr, arg.parsed)} :
           ret' = Returned([date |-> eventDate,
                            past |-> isPastDate(eventDate, clockDate(arg.clock))])
    /\ UNCHANGED <<csvVars, arg, appVars>>

SpecDate == InitDate /\ [][ClassifyDate]_vars

\* the year, month and day a text names when it is of the form YYYY-MM-DD or
\* D/M/YYYY (a time part may follow) and names a day of the calendar; <<>>
\* otherwise
CalendarOf(text) ==
    LET s == beforeTimePart(trim(text))
        iso == matchesIso(s)
        uk == groupsUk(s)
        ymd == IF iso THEN <<toNumber(SubSeq(s, 1, 4)), toNumber(SubSeq(s, 6, 7)),
                             toNumber(SubSeq(s, 9, 10))>>
               ELSE IF uk # <<>> THEN <<toNumber(uk[3]), toNumber(uk[2]), toNumber(uk[1])>>
               ELSE <<>>
    IN IF /\ ymd # <<>> /\ ymd[1] >= 100 /\ ymd[2] \in 1..12
          /\ ymd[3] \in 1..DaysInMonth(ymd[1], ymd[2])
       THEN ymd ELSE <<>>

Earlier(a, b) ==
    \/ a[1] < b[1]
    \/ a[1] = b[1] /\ a[2] < b[2]
    \/ a[1] = b[1] /\ a[2] = b[2] /\ a[3] < b[3]

June15 == [y |-> 2024, m |-> 6, d |-> 15, h |-> 10]

\* C21: a text that names a day of the calendar is past iff that day is
\* earlier than the day of the clock, whatever the hour of the clock; any
\* other date is past iff it is earlier than the clock's midnight; a text
\* that does not parse gives null, and null is never past.  On 2024-06-15,
\* 2024-06-14 is past, 2024-06-16 is not and not-a-date is null.
C21_PastIffBeforeToday ==
    ret.done =>
        LET cal == CalendarOf(arg.dateStr)
            today == <<arg.clock.y, arg.clock.m, arg.clock.d>>
            date == ret.v.date
        IN /\ cal # <<>> => (date.kind = "date" /\ ret.v.past = Earlier(cal, today))
           /\ ~HasDigit(arg.dateStr) => date = NullDate
           /\ date.kind \in {"null", "date"}
           /\ ret.v.past =
                 (date.kind = "date" /\ date.t < newDate(today[1], today[2] - 1, today[3]).t)
           /\ arg.clock = June15 =>
                 /\ arg.dateStr = <<"2","0","2","4","-","0","6","-","1","4">> => ret.v.past
                 /\ arg.dateStr = <<"2","0","2","4","-","0","6","-","1","6">> => (date.kind = "date" /\ ~ret.v.past)
                 /\ arg.dateStr = NotADate => (date = NullDate /\ ~ret.v.past)

C21_Witness ==
    /\ ret.done
    /\ arg.clock = June15
    /\ arg.dateStr = <<"2","0","2","4","-","0","6","-","1","4">>
    /\ ret.v.past

-----------------------------------------------------------------------------
(* The widget over time *)

\* C22: a load that fails puts the error state in place of the list and
\* starts no other load; and while no load is in flight and none is
\* started, no event removes the error state from the list.
C22_ErrorStateStays ==
    [][/\ LoadFails => (listEl'.error /\ pending' = pending - 1)
       /\ (listEl.error /\ pending = 0 /\ pending' = 0) => listEl'.error]_vars

\* C23: a response that resolves, whatever other loads are in flight,
\* replaces the batch by its parse, and the list shows the first page of the
\* records of that batch that pass the filters: no record of an earlier batch
\* is left in the batch, the result or the list.
C23_LastResponseWins ==
    [][LoadResolves =>
        /\ \E text \in AppCsvTexts :
           \E parsed \in {parseCSV(text)} :
               /\ Len(allRecords') = Len(parsed)
               /\ \A n \in 1..Len(parsed) : allRecords'[n].cols = parsed[n].cols
        /\ ~listEl'.error
        /\ \A n \in 1..Len(filtered') :
              \E x \in 1..Len(allRecords') : Unflagged(filtered'[n]) = allRecords'[x]
        /\ (currentQuery = <<>> /\ currentRole = <<>>) => filtered' = allRecords'
        /\ listEl'.cards =
              [n \in 1..min2(pageSize, Len(filtered')) |-> cardOf(filtered'[n])]]_vars

\* C24: at most one timer is set at any time; an input event runs no filter
\* pass (the query, the result and the list stay as they are) and leaves
\* exactly one timer set; only the pass that runs when the timer expires
\* ends the timer and changes the query, it takes the value the input has
\* then, the last of the burst, and leaves no timer set, so that one pass
\* and no more follows the last event of a burst.
C24_OnePassPerBurst ==
    [][/\ timer <= 1 /\ timer' <= 1
       /\ SearchInput => (timer' = 1 /\ UNCHANGED <<currentQuery, filtered, listEl>>)
       /\ SearchFires => (timer = 1 /\ currentQuery' = inputValue /\ timer' = 0)
       /\ (timer' < timer \/ currentQuery' # currentQuery) => SearchFires]_vars

\* a burst of input events has ended in a pass with the last value
C24_Witness ==
    /\ timer = 0
    /\ currentQuery = inputValue
    /\ currentQuery = <<"b">>
    /\ allRecords # <<>>


-----------------------------------------------------------------------------
(* The modal sections of the admin-aware variant, part_001 13-15, 223-230
   and 519-563; its field helpers, sanitizer and highlighter are those of
   script.js *)

AdminStr == <<"a","d","m","i","n">>

\* new URLSearchParams(search).get(name) for a text without escapes: the
\* value of the first name=value pair of that name
searchParam(search, name) ==
    LET body == IF search # <<>> /\ Head(search) = "?" THEN Tail(search) ELSE search
        pairs == SelectSeq(split(body, {AMP}, TRUE), LAMBDA p : p # <<>>)
        eqAt(p) == {n \in 1..Len(p) : p[n] = "="}
        cut(p) == IF eqAt(p) = {} THEN Len(p) + 1
                  ELSE CHOOSE n \in eqAt(p) : \A x \in eqAt(p) : n <= x
        keyOf(p) == SubSeq(p, 1, cut(p) - 1)
        valueOf(p) == SubSeq(p, cut(p) + 1, Len(p))
        hits == {n \in 1..Len(pairs) : keyOf(pairs[n]) = name}
    IN IF hits = {} THEN [has |-> FALSE, v |-> <<>>]
       ELSE [has |-> TRUE, v |-> valueOf(pairs[CHOOSE n \in hits : \A x \in hits : n <= x])]

\* part_001 13-15; search is location.search
isAdmin(search) ==
    LET p == searchParam(search, AdminStr) IN p.has /\ p.v = <<"1">>

\* part_001 223-230 and 235 for a value without '<' and '&':
\* decodeEntities leaves it alone, normalizeMultilinePlainText puts <br> for
\* every line break, and the parser gives text nodes and BR elements
RECURSIVE plainMarkup(_)
plainMarkup(s) ==
    LET nl == {n \in 1..Len(s) : s[n] = LF} IN
    IF s = <<>> THEN <<>>
    ELSE IF nl = {} THEN <<Text(s)>>
    ELSE LET p == CHOOSE n \in nl : \A x \in nl : n <= x
             e == IF p > 1 /\ s[p - 1] = CR THEN p - 2 ELSE p - 1
         IN (IF e >= 1 THEN <<Text(SubSeq(s, 1, e))>> ELSE <<>>)
            \o <<Element("BR", <<>>, <<>>)>>
            \o plainMarkup(SubSeq(s, p + 1, Len(s)))

\* part_001 522-525, 543-546
valueHTML(value, query) ==
    highlightHTML(sanitizeBasicHTML(plainMarkup(value)), query)

NoInformation == [kind |-> "none", items |-> <<>>, html |-> <<>>]

\* part_001 519-529: the items of the list, each with its escaped label and
\* the markup of its value
renderLabelValueList(pairs, query) ==
    IF pairs = <<>> THEN NoInformation
    ELSE [kind |-> "list",
          items |-> [n \in 1..Len(pairs) |->
                        [label |-> escapeHTML(pairs[n].label),
                         html |-> valueHTML(pairs[n].value, query)]],
          html |-> <<>>]

\* part_001 537-541: the first value that is not blank
RECURSIVE firstContent(_, _)
firstContent(rec, fieldList) ==
    IF fieldList = <<>> THEN <<>>
    ELSE LET val == getByHeader(rec, Head(fieldList)) IN
         IF trim(val) # <<>> THEN val ELSE firstContent(rec, Tail(fieldList))

\* part_001 550-557; hidden says whether adminOnly items are passed over
RECURSIVE pairsOf(_, _, _)
pairsOf(rec, items, hidden) ==
    IF items = <<>> THEN <<>>
    ELSE LET item == Head(items)
             raw == getByHeader(rec, item.header)
         IN (IF item.adminOnly /\ hidden THEN <<>>
             ELSE IF trim(raw) # <<>> THEN <<[label |-> item.label, value |-> raw]>>
             ELSE <<>>)
            \o pairsOf(rec, Tail(items), hidden)

\* buildSectionHTML that passes over no item
buildSectionHTMLShowingAll(rec, section, query, search) ==
    IF section.type = "list"
    THEN renderLabelValueList(pairsOf(rec, section.items, FALSE), query)
    ELSE NoInformation

\* part_001 531-563; search is location.search
buildSectionHTML(rec, section, query, search) ==
    LET admin == isAdmin(search) IN
    IF section.type = "rich"
    THEN LET fieldList == IF admin /\ section.adminFields # <<>>
                          THEN section.adminFields ELSE section.fields
             html == valueHTML(firstContent(rec, fieldList), query)
         IN IF html # <<>> THEN [kind |-> "rich", items |-> <<>>, html |-> html]
            ELSE NoInformation
    ELSE IF section.type = "list"
    THEN renderLabelValueList(pairsOf(rec, section.items, ~admin), query)
    ELSE NoInformation

\* a sheet with a public column and two admin-only columns, the second of
\* which the sheet may lack
DivisionsStr == <<"D","i","v","i","s","i","o","n","s">>
TrophyStr == <<"T","r","o","p","h","y">>
BoardCompStr == <<"B","o","a","r","d"," ","C","o","m","p">>
BoardCompetitionStr == <<"B","o","a","r","d"," ","C","o","m","p","e","t","i","t","i","o","n">>
RulesSection ==
    [type |-> "list", fields |-> <<>>, adminFields |-> <<>>,
     items |-> << [label |-> DivisionsStr, header |-> DivisionsStr, adminOnly |-> FALSE],
                  [label |-> TrophyStr, header |-> TrophyStr, adminOnly |-> TRUE],
                  [label |-> BoardCompetitionStr, header |-> BoardCompStr, adminOnly |-> TRUE] >>]
OverviewSection ==
    [type |-> "rich", fields |-> <<DivisionsStr>>, adminFields |-> <<TrophyStr, DivisionsStr>>,
     items |-> <<>>]
OtherSection == [type |-> "table", fields |-> <<>>, adminFields |-> <<>>, items |-> <<>>]
Sections == {RulesSection, OverviewSection, OtherSection}

SectionValues == {<<>>, <<SP>>, <<"a">>, <<"A", "b", LF, "c">>}
SectionRecords ==
    {[cols |-> << [k |-> DivisionsStr, v |-> d], [k |-> TrophyStr, v |-> t] >> \o b,
      lc |-> NoLc, fuzzy |-> NoFuzzy]
     : d \in SectionValues, t \in SectionValues,
       b \in {<<>>} \cup {<<[k |-> BoardCompStr, v |-> x]>> : x \in SectionValues}}
SectionQueries == {<<>>, <<"a">>, <<"b", SP, "c">>}
ElevatedSearches == {<<"?","a","d","m","i","n","=","1">>, <<"?","x","=","1","&","a","d","m","i","n","=","1">>, <<"?","a","d","m","i","n","=","1","&","a","d","m","i","n","=","0">>}
PublicSearches == {<<>>, <<"?","a","d","m","i","n","=","0">>, <<"?","a","d","m","i","n">>, <<"?","A","d","m","i","n","=","1">>, <<"?","a","d","m","i","n","=","1","1">>}

InitSection ==
    /\ arg \in [rec : SectionRecords, section : Sections, query : SectionQueries,
                search : ElevatedSearches \cup PublicSearches]
    /\ ret = NoRet
    /\ CsvIdle

BuildSection ==
    /\ ~ret.done
    /\ ret' = Returned(buildSectionHTML(arg.rec, arg.section, arg.query, arg.search))
    /\ arg' = [arg EXCEPT !.rec = withLc(@)]
    /\ UNCHANGED <<csvVars, appVars>>

SpecSection == InitSection /\ [][BuildSection]_vars

\* what the column of that header holds, the empty text when there is none
CellOf(rec, header) ==
    LET hits == {n \in 1..Len(rec.cols) : toLowerCase(rec.cols[n].k) = toLowerCase(header)}
    IN IF hits = {} THEN <<>> ELSE rec.cols[CHOOSE n \in hits : TRUE].v

\* the output has an item of that label
Shows(out, label) == \E n \in 1..Len(out.items) : out.items[n].label = escapeHTML(label)

\* C25: for every item of a list section that is marked adminOnly, the
\* output holds the item iff the address asks for the elevated view and the
\* item's column holds a value that is not blank; so with the elevated view
\* off no such item is in the output, whatever the record and the query.
C25_AdminOnlyHidden ==
    (ret.done /\ arg.section.type = "list") =>
        \A n \in 1..Len(arg.section.items) :
            LET item == arg.section.items[n] IN
            item.adminOnly =>
                (Shows(ret.v, item.label) =
                    (/\ arg.search \in ElevatedSearches
                     /\ trim(CellOf(arg.rec, item.header)) # <<>>))

\* the elevated view is off, the record holds a value in an admin-only
\* column that the query matches, and the public item is shown
C25_Witness ==
    /\ ret.done /\ arg.section = RulesSection
    /\ arg.search \in PublicSearches
    /\ arg.query = <<"a">>
    /\ CellOf(arg.rec, TrophyStr) = <<"a">>
    /\ Shows(ret.v, DivisionsStr)
    /\ ~Shows(ret.v, TrophyStr)

-----------------------------------------------------------------------------
(* The raw record as enumeration sees it *)

LcKey == <<"_", "_", "l", "c">>
FuzzyKey == <<"_", "_", "f", "u", "z", "z", "y">>

\* the keys of rec that for-in, Object.values and object spread visit
EnumerableKeys(rec) ==
    {rec.cols[n].k : n \in 1..Len(rec.cols)}
    \cup (IF rec.lc.has THEN {LcKey} ELSE {})
    \cup (IF rec.fuzzy # NoFuzzy THEN {FuzzyKey} ELSE {})

\* C26: after getField has returned, the keys the record exposes to
\* enumeration are the headers of its columns and nothing else.
C26_RecordImmutable ==
    ret.done => EnumerableKeys(arg.rec) = {arg.rec.cols[n].k : n \in 1..Len(arg.rec.cols)}

\* a step that ends in render(): a page or page-size handler, or a filter
\* pass that did not raise
RenderStep ==
    \/ PageSizeChange \/ PrevPage \/ NextPage
    \/ ((SearchFires \/ RoleChange \/ FuzzyToggle \/ LoadResolves) /\ raised' = "none")

\* a step that runs applyFilters
FilterStep == SearchFires \/ RoleChange \/ FuzzyToggle \/ LoadResolves

\* after the step, what the page shows agrees with filtered, currentPage and
\* pageSize
PageShownNext ==
    LET pages == max2(1, (Len(filtered') + pageSize' - 1) \div pageSize')
        start == (currentPage' - 1) * pageSize'
    IN /\ currentPage' >= 1 /\ currentPage' <= pages
       /\ ~listEl'.error
       /\ Len(listEl'.cards) = min2(pageSize', Len(filtered') - start)
       /\ \A n \in 1..Len(listEl'.cards) : listEl'.cards[n] = cardOf(filtered'[start + n])
       /\ prevBtn' = (currentPage' = 1)
       /\ nextBtn' = (currentPage' = pages)

\* C27: after every step that renders, currentPage is between 1 and the
\* number of pages, the list shows the records of filtered of that page, the
\* previous button is disabled iff the page is the first and the next button
\* iff it is the last; and after every filter pass and every page-size
\* change currentPage is 1.
C27_PageInvariants ==
    [][/\ RenderStep => PageShownNext
       /\ (FilterStep \/ PageSizeChange) => currentPage' = 1]_vars


\* C28: when the id looked up is the id on a card of the list, the record
\* that findRecordById returns has that id as its canonical id.
C28_DetailsOfTheCard ==
    (ret.done /\ \E n \in 1..Len(listEl.cards) : listEl.cards[n].id = arg) =>
        ret.v \in WithCanonicalId(arg)


-----------------------------------------------------------------------------
(* The text a reader sees in the output of highlightExact *)

\* s without the <mark> and </mark> wrappers, from position p on
RECURSIVE withoutMarks(_, _)
withoutMarks(s, p) ==
    IF p > Len(s) THEN <<>>
    ELSE IF p \in StartsOf(s, MarkOpen) THEN withoutMarks(s, p + Len(MarkOpen))
    ELSE IF p \in StartsOf(s, MarkClose) THEN withoutMarks(s, p + Len(MarkClose))
    ELSE <<s[p]>> \o withoutMarks(s, p + 1)

EntityChars == {AMP, LT, GT, QUOTE, APOS}

\* s with the character references that escapeHTML writes decoded, from
\* position p on
RECURSIVE decodedFrom(_, _)
decodedFrom(s, p) ==
    IF p > Len(s) THEN <<>>
    ELSE LET refs == {c \in EntityChars : p \in StartsOf(s, escapeChar(c))} IN
         IF refs = {} THEN <<s[p]>> \o decodedFrom(s, p + 1)
         ELSE LET c == CHOOSE x \in refs : TRUE
              IN <<c>> \o decodedFrom(s, p + Len(escapeChar(c)))

visibleText(html) == decodedFrom(withoutMarks(html, 1), 1)

\* C29: the output of highlightExact, without its mark wrappers and with
\* its character references decoded, is the text it was given.
C29_VisibleTextKept == ret.done => visibleText(ret.v) = arg.text


-----------------------------------------------------------------------------
(* The markup of one card, script.js 453-497 *)

\* script.js 453-497: the strings that render interpolates into the markup of
\* the card of rawRec, by the place they are written to: the text of
\* <strong> and of .entry-role, the href of the link badge (none when the
\* record has no link or isSafeHttpUrl rejects it), the text of the date
\* line (none for an empty date), the markup of .entry-msg, and the
\* data-view and aria-label attributes of the button. The badges "CSV",
\* "Played" and "fuzzy" are fixed text.
cardMarkup(rawRec, query) ==
    Apply(normalizeRecord(rawRec), LAMBDA recN :
        [name |-> highlightExact(recN.title, query),
         role |-> highlightExact(recN.type, query),
         href |-> IF recN.link # <<>> /\ isSafeHttpUrl(recN.link)
                  THEN <<recN.link>> ELSE <<>>,
         date |-> IF recN.date # <<>> THEN <<escapeHTML(recN.date)>> ELSE <<>>,
         msg |-> valueHTML(recN.overview, query),
         dataView |-> recN.id,
         ariaLabel |-> escapeHTML(recN.title)])

\* records with an id, a title, a date, a format, a summary and a link
QuoteId == <<"x", QUOTE, SP, "y">>
QuoteInPath == <<QUOTE, GT, LT, "i", GT>>
QuoteInHttpsPath == HttpsStr \o <<COLON, SLASH, SLASH, "h", SLASH, QUOTE, "x">>
ScriptLink == <<"j", "a", "v", "a", "s", "c", "r", "i", "p", "t", COLON, "x">>
CardIds == {<<>>, <<"x">>, QuoteId}
CardTitles == {<<>>, <<"a">>, <<LT, "i", GT, QUOTE>>}
CardDates == {<<>>, <<LT, "1">>}
CardLinks == {<<>>, <<"x">>, QuoteInPath, QuoteInHttpsPath, ScriptLink}
CardSummaries == {<<>>, <<"a">>}
CardRecords ==
    {[cols |-> << [k |-> FIELD_MAP.id[1], v |-> x], [k |-> FIELD_MAP.title[1], v |-> t],
                  [k |-> FIELD_MAP.date[1], v |-> d], [k |-> FIELD_MAP.type[2], v |-> t],
                  [k |-> FIELD_MAP.overview[1], v |-> s], [k |-> FIELD_MAP.link[1], v |-> l] >>,
      lc |-> NoLc, fuzzy |-> NoFuzzy] :
        x \in CardIds, t \in CardTitles, d \in CardDates, s \in CardSummaries, l \in CardLinks}
CardQueries == {<<>>, <<"a">>, <<"i">>}

InitCard ==
    /\ arg \in [rec : CardRecords, query : CardQueries]
    /\ ret = NoRet
    /\ CsvIdle

BuildCard ==
    /\ ~ret.done
    /\ ret' = Returned(cardMarkup(arg.rec, arg.query))
    /\ arg' = [arg EXCEPT !.rec = withLc(@)]
    /\ UNCHANGED <<csvVars, appVars>>

SpecCard == InitCard /\ [][BuildCard]_vars

\* s holds no character that ends a double-quoted attribute value
InsideAttribute(s) == \A p \in 1..Len(s) : s[p] # QUOTE

\* s holds no tag but the mark wrappers
InsideText(s) ==
    {p \in 1..Len(s) : s[p] = LT} = StartsOf(s, MarkOpen) \cup StartsOf(s, MarkClose)

\* C30: of the strings written into a card, those written into an
\* attribute (href, data-view, aria-label) hold no double quote and those
\* written as text (name, format, date) hold no tag but the mark wrappers.
C30_CardValuesEscaped ==
    ret.done =>
        /\ InsideText(ret.v.name) /\ InsideText(ret.v.role)
        /\ \A n \in 1..Len(ret.v.date) : InsideText(ret.v.date[n])
        /\ InsideAttribute(ret.v.ariaLabel)
        /\ InsideAttribute(ret.v.dataView)
        /\ \A n \in 1..Len(ret.v.href) : InsideAttribute(ret.v.href[n])

====
